---- MODULE Spec2Model ----
(***************************************************************************)
(* Model of the WebSocket request multiplexer of tower-a2a                 *)
(* (src/src/transport/websocket.rs): one shared connection slot, callers   *)
(* running execute / execute_streaming concurrently, the receiver task     *)
(* spawned by start_message_handler, and the remote agent as environment.  *)
(*                                                                         *)
(* A step of a caller runs from one suspension point (.await that can      *)
(* block) to the next.  A critical section without a suspension point      *)
(* (register_request, handle_response) is one step, taken when its lock is *)
(* free.                                                                   *)
(***************************************************************************)
EXTENDS Integers, Sequences, FiniteSets, TLC

\* ---------------------------------------------------------------- bounds
\* Number of calls (execute or execute_streaming) made on the transport.
NumCalls == 2
\* Number of distinct JSON-RPC id strings the envelopes and frames draw from.
NumIds == 2
\* Number of frames the agent sends on the connection.
MaxFrames == 3

Calls == 1..NumCalls
Ids == 1..NumIds

VARIABLES
    connection,        \* WebSocketTransport.connection: 0 = None, k = Some(k-th connection)
    connGuard,         \* holder of the Mutex around the connection slot (0 = free)
    message_handler,   \* WebSocketTransport.message_handler: FALSE = None, TRUE = Some(handle)
    receiver,          \* the spawned receiver task: "none", "running", "exited"
    connLock,          \* holder of the Mutex around WebSocketConnection (0 = free)
    pending_requests,  \* WebSocketConnection.pending_requests: id -> call owning the sender, 0 = absent
    chan,              \* per call: values queued in its unbounded channel
    pc,                \* per call: where the call is
    kind,              \* per call: "execute" or "streaming"
    reqId,             \* per call: request_id
    ret,               \* per call: what the call returned
    yielded,           \* per streaming call: events the stream has yielded
    wire,              \* envelopes sent on the sink, in order (by call)
    frames,            \* frames the agent has sent, in order
    recvPos,           \* number of frames the receiver task has read
    fate,              \* what the receiver task did with each frame it read
    attempts,          \* handshakes started
    established,       \* handshakes completed
    spawned,           \* receiver tasks spawned
    outstandingAtSendError, \* calls awaiting their responder when another call's send failed
    lockOrder,         \* calls in the order in which they acquired the connection's lock to send
    \* --- AgentClient (client/agent.rs)
    clientPc,          \* where the client operation is: "idle", "call", "sleep", "done"
    clientOp,          \* the AgentClient method that was called
    max_attempts,      \* poll_until_complete's argument (0 = unlimited)
    pollAttempts,      \* poll_until_complete's local `attempts`
    issued,            \* number of service.call invocations made so far
    answers,           \* what the service returned, call by call
    sleeps,            \* number of tokio::time::sleep calls made by the poll loop
    clientRet,         \* what the client method returned
    \* --- A2AValidationService (layer/validation.rs)
    validationPc,      \* where the validation service's call is: "idle", "inner", "done"
    req,               \* the request given to A2AValidationService::call
    innerCalls,        \* the requests the inner service was called with, in order
    response,          \* what the inner service returned
    validationRet,     \* what the validation service's future returned
    \* --- AuthService, A2AProtocolService, A2AClientBuilder (layer/auth.rs, service/core.rs)
    servicePc,         \* where the service call is: "idle", "transport", "done"
    stack,             \* the service stack called: its entry ("auth": AuthService, "built": a built client) and codec
    serviceReq,        \* the A2ARequest as it was given, and the credential configured
    innerReq,          \* the A2ARequest the protocol service received
    transportReqs,     \* the TransportRequests handed to transport.execute, in order
    transportResp,     \* the TransportResponse the transport returned
    decodeCalls,       \* bodies handed to codec.decode_response, in order
    serviceRet,        \* what the protocol service's future returned
    \* --- codecs and protocol types (codec/*.rs, protocol/*.rs): one function applied
    codecFn,           \* the function applied ("none" before)
    codecArg,          \* its argument
    codecOut,          \* its result
    \* --- SseCodec::parse_stream (codec/sse.rs)
    sseInput,          \* the events of the byte stream, in order
    ssePos,            \* number of events the mapped stream has consumed
    sseItems,          \* the items the returned stream has yielded, in order
    \* --- one call through A2AProtocolService over WebSocketTransport, in detail
    callReq,           \* the A2ARequest given to the protocol service ("none": the transport is called directly)
    callBody,          \* TransportRequest.body handed to the transport
    callUuid,          \* what Uuid::now_v7() returns to this call
    agentResult,       \* the result value the agent puts into its reply frame
    elapsed,           \* seconds the call had waited for its response when it timed out
    callRet            \* what the protocol service (or the transport, called directly) returned

\* State of the client's operations and of the validation service.
pollVars == <<clientPc, clientOp, max_attempts, pollAttempts, issued, answers,
              sleeps, clientRet>>
validationVars == <<validationPc, req, innerCalls, response, validationRet>>

\* State of a call through the service stack, of a codec function's
\* application, and of a parsed event stream.
serviceVars == <<servicePc, stack, serviceReq, innerReq, transportReqs, transportResp,
                 decodeCalls, serviceRet>>
codecVars == <<codecFn, codecArg, codecOut>>
sseVars == <<sseInput, ssePos, sseItems>>
callVars == <<callReq, callBody, callUuid, agentResult, elapsed, callRet>>

\* ------------------------------------------------------------ A2A values
\* Option<T>
None == [some |-> FALSE, val |-> ""]
Some(v) == [some |-> TRUE, val |-> v]
NoneU32 == [some |-> FALSE, val |-> 0]

\* MessagePart (protocol/message.rs): Text { text }, File { file: FileContent }
\* with name, file_with_uri and file_with_bytes, Data { data }.
TextPart(t) ==
    [kind |-> "text", text |-> t, name |-> "", file_with_uri |-> None,
     file_with_bytes |-> None]
FilePart(n, u, b) ==
    [kind |-> "file", text |-> "", name |-> n, file_with_uri |-> u,
     file_with_bytes |-> b]
DataPart ==
    [kind |-> "data", text |-> "", name |-> "", file_with_uri |-> None,
     file_with_bytes |-> None]

\* A2ARequest: the operation with the fields validation reads, and
\* context.agent_url.  Fields an operation does not have are left empty.
Request(o, ps, t, l, f, u, e, a) ==
    [op |-> o, parts |-> ps, task_id |-> t, limit |-> l, offset |-> f, url |-> u,
     events |-> e, agent_url |-> a]
NoRequest == Request("none", <<>>, "", NoneU32, NoneU32, "", <<>>, "")

\* Result<A2AResponse, A2AError> of the inner service: a Task with id,
\* input.parts, status, artifacts and error; an AgentCard with name and
\* endpoints; a TaskList; Empty; or an error.
InnerResult(t, i, ps, st, ar, er, n, en) ==
    [tag |-> t, id |-> i, parts |-> ps, status |-> st, artifacts |-> ar, error |-> er,
     name |-> n, endpoints |-> en]
NoResponse == InnerResult("none", "", <<>>, "", <<>>, None, "", <<>>)

\* Result<(), A2AError> of the validators and Result<A2AResponse, A2AError>
\* of the validation service.
Valid == [tag |-> "Ok", msg |-> "", resp |-> NoResponse]
Validation(m) == [tag |-> "Validation", msg |-> m, resp |-> NoResponse]
OkResponse(r) == [tag |-> "Ok", msg |-> "", resp |-> r]
InnerError(e) == [tag |-> e, msg |-> "", resp |-> NoResponse]
NoResult == [tag |-> "None", msg |-> "", resp |-> NoResponse]

\* No client operation and no validation call is under way.
PollAtRest ==
    /\ clientPc = "idle"
    /\ clientOp = "none"
    /\ max_attempts = 0
    /\ pollAttempts = 0
    /\ issued = 0
    /\ answers = <<>>
    /\ sleeps = 0
    /\ clientRet = [tag |-> "None", body |-> ""]
ValidationAtRest ==
    /\ validationPc = "idle"
    /\ req = NoRequest
    /\ innerCalls = <<>>
    /\ response = NoResponse
    /\ validationRet = NoResult

\* No call has entered the service stack, no codec function has been
\* applied, no event stream is being parsed.
ServiceAtRest ==
    /\ servicePc = "idle"
    /\ stack = [entry |-> "none", codec |-> "none"]
    /\ serviceReq = "none"
    /\ innerReq = "none"
    /\ transportReqs = <<>>
    /\ transportResp = "none"
    /\ decodeCalls = <<>>
    /\ serviceRet = "none"

CodecAtRest ==
    /\ codecFn = "none"
    /\ codecArg = "none"
    /\ codecOut = "none"

SseAtRest ==
    /\ sseInput = <<>>
    /\ ssePos = 0
    /\ sseItems = <<>>

NoCallRequest == [operation |-> [op |-> "none"]]
NoCallBody == [text |-> "none", value |-> <<>>]
NoCallResult == [shape |-> "none", id |-> ""]
NoCallRet == [ok |-> FALSE, kind |-> "none", val |-> "", msg |-> ""]
CallAtRest ==
    /\ callReq = NoCallRequest
    /\ callBody = NoCallBody
    /\ callUuid = ""
    /\ agentResult = NoCallResult
    /\ elapsed = 0
    /\ callRet = NoCallRet

\* State of the WebSocket transport.
wsVars == <<connection, connGuard, message_handler, receiver, connLock,
            pending_requests, chan, pc, kind, reqId, ret, yielded, wire, frames,
            recvPos, fate, attempts, established, spawned, outstandingAtSendError,
            lockOrder>>

vars == <<wsVars, pollVars, validationVars, serviceVars, codecVars, sseVars, callVars>>

\* ------------------------------------------------------------ values
NoRet == [tag |-> "None", body |-> 0]
Ok(n) == [tag |-> "Ok", body |-> n]
Err(e) == [tag |-> e, body |-> 0]

\* A2AError values the transport produces.
TransportConnect == "Transport: WebSocket connection failed"
TransportSend == "Transport: WebSocket send failed"
TransportClosed == "Transport: Response channel closed"
Timeout == "Timeout"

\* Frames read from the socket.  A "result" frame is a text frame holding a
\* JSON object with a string id and a result member; its result value is
\* identified by the frame's position n in frames.  re records whether an
\* envelope with that id was already on the wire when the agent sent it.
ResultFrame(i, r) == [kind |-> "result", id |-> i, re |-> r]
PlainFrame(k) == [kind |-> k, id |-> 0, re |-> FALSE]

EmptyMap == [i \in Ids |-> 0]

Init ==
    /\ connection = 0
    /\ connGuard = 0
    /\ message_handler = FALSE
    /\ receiver = "none"
    /\ connLock = 0
    /\ pending_requests = EmptyMap
    /\ chan = [c \in Calls |-> <<>>]
    /\ pc = [c \in Calls |-> "idle"]
    /\ kind = [c \in Calls |-> "execute"]
    /\ reqId = [c \in Calls |-> 0]
    /\ ret = [c \in Calls |-> NoRet]
    /\ yielded = [c \in Calls |-> <<>>]
    /\ wire = <<>>
    /\ frames = <<>>
    /\ recvPos = 0
    /\ fate = <<>>
    /\ attempts = 0
    /\ established = 0
    /\ spawned = 0
    /\ outstandingAtSendError = {}
    /\ lockOrder = <<>>
    /\ PollAtRest
    /\ ValidationAtRest
    /\ ServiceAtRest
    /\ CodecAtRest
    /\ SseAtRest
    /\ CallAtRest

\* ------------------------------------------------------------ helpers
Started == {c \in Calls : pc[c] # "idle"}

\* Ids are only ever compared for equality, and calls are interchangeable:
\* calls start in index order and a call takes an id already in use or the
\* least unused one.
IdChoices ==
    LET used == {reqId[c] : c \in Started}
        unused == Ids \ used
    IN  used \cup {i \in unused : \A j \in unused : i <= j}

CanStart(c) == pc[c] = "idle" /\ (IF c = 1 THEN TRUE ELSE pc[c - 1] # "idle")

\* The caller's end of the channel (rx) exists from the channel's creation
\* until the call returns or its future or stream is dropped.
RxAlive(c) ==
    IF kind[c] = "execute"
    THEN pc[c] \in {"register", "send", "sending", "wait"}
    ELSE pc[c] \in {"register", "stream"}

\* The sender (tx) of call c is alive while the pending map holds it.
TxInMap(c) == reqId[c] \in Ids /\ pending_requests[reqId[c]] = c

\* Mutant of StepOrder: execute sends before it registers, as the stream does.
StepOrderSendFirst(k, p) ==
    CASE p = "connected" -> "send"
      [] p = "sending" -> "register"
      [] p = "register" -> IF k = "execute" THEN "wait" ELSE "stream"

\* The order of the steps of a call once it holds the connection.
\* execute: register_request, then send_message, then wait for the response.
\* execute_streaming: send_message, then register_request, then return the stream.
StepOrder(k, p) ==
    IF k = "execute"
    THEN CASE p = "connected" -> "register"
           [] p = "register" -> "send"
           [] p = "sending" -> "wait"
    ELSE CASE p = "connected" -> "send"
           [] p = "sending" -> "register"
           [] p = "register" -> "stream"

\* Mutant of GuardDuringHandshake: the guard is released while the handshake runs.
GuardReleased(c) == 0

\* get_connection keeps the slot's guard across the handshake.
GuardDuringHandshake(c) == c

\* get_connection establishes a connection only when the slot is None.
SlotIsNone == connection = 0

\* ------------------------------------------------------------ get_connection
\* The call starts: the body parses, request_id is read from the envelope,
\* and get_connection takes the slot's guard.  With a connection in the slot
\* the guard is released at once; otherwise it is held while
\* WebSocketConnection::new awaits the handshake.
get_connection(c, k, i) ==
    /\ CanStart(c)
    /\ connGuard = 0
    /\ kind' = [kind EXCEPT ![c] = k]
    /\ reqId' = [reqId EXCEPT ![c] = i]
    /\ IF SlotIsNone
       THEN /\ pc' = [pc EXCEPT ![c] = "handshake"]
            /\ connGuard' = GuardDuringHandshake(c)
            /\ attempts' = attempts + 1
       ELSE /\ pc' = [pc EXCEPT ![c] = StepOrder(k, "connected")]
            /\ UNCHANGED <<connGuard, attempts>>
    /\ UNCHANGED <<connection, message_handler, receiver, connLock, pending_requests,
                   chan, ret, yielded, wire, frames, recvPos, fate, established,
                   spawned, outstandingAtSendError>>
    /\ UNCHANGED <<lockOrder, pollVars, validationVars, serviceVars, codecVars, sseVars, callVars>>

execute(c) == \E i \in IdChoices : get_connection(c, "execute", i)

execute_streaming(c) == \E i \in IdChoices : get_connection(c, "streaming", i)

\* start_message_handler: spawn the receiver task and store its handle.
start_message_handler ==
    /\ spawned' = spawned + 1
    /\ receiver' = "running"
    /\ message_handler' = TRUE

\* WebSocketConnection::new returned Ok: the connection (with an empty pending
\* map) goes into the slot, the receiver task is spawned, the guard is dropped.
handshake_ok(c) ==
    /\ pc[c] = "handshake"
    /\ established' = established + 1
    /\ connection' = established + 1
    /\ pending_requests' = EmptyMap
    /\ start_message_handler
    /\ connGuard' = 0
    /\ pc' = [pc EXCEPT ![c] = StepOrder(kind[c], "connected")]
    /\ UNCHANGED <<connLock, chan, kind, reqId, ret, yielded, wire, frames, recvPos,
                   fate, attempts, outstandingAtSendError>>
    /\ UNCHANGED <<lockOrder, pollVars, validationVars, serviceVars, codecVars, sseVars, callVars>>

\* Mutant of handshake_fail: the slot is filled before the handshake's result
\* is known, so a failed handshake leaves a connection in it.
handshake_fail_fills_slot(c) ==
    /\ pc[c] = "handshake"
    /\ connGuard' = 0
    /\ connection' = established + 1
    /\ pc' = [pc EXCEPT ![c] = "done"]
    /\ ret' = [ret EXCEPT ![c] = Err(TransportConnect)]
    /\ UNCHANGED <<message_handler, receiver, connLock, pending_requests,
                   chan, kind, reqId, yielded, wire, frames, recvPos, fate, attempts,
                   established, spawned, outstandingAtSendError>>
    /\ UNCHANGED <<lockOrder, pollVars, validationVars, serviceVars, codecVars, sseVars, callVars>>

\* WebSocketConnection::new returned Err: `?` returns it, dropping the guard.
handshake_fail(c) ==
    /\ pc[c] = "handshake"
    /\ connGuard' = 0
    /\ pc' = [pc EXCEPT ![c] = "done"]
    /\ ret' = [ret EXCEPT ![c] = Err(TransportConnect)]
    /\ UNCHANGED <<connection, message_handler, receiver, connLock, pending_requests,
                   chan, kind, reqId, yielded, wire, frames, recvPos, fate, attempts,
                   established, spawned, outstandingAtSendError>>
    /\ UNCHANGED <<lockOrder, pollVars, validationVars, serviceVars, codecVars, sseVars, callVars>>

\* ------------------------------------------------------------ register / send
\* Mutant of register_request: an entry already held under the id is kept.
register_request_keeps_first(c) ==
    /\ pc[c] = "register"
    /\ connLock = 0
    /\ pending_requests' = IF pending_requests[reqId[c]] = 0
                           THEN [pending_requests EXCEPT ![reqId[c]] = c]
                           ELSE pending_requests
    /\ pc' = [pc EXCEPT ![c] = StepOrder(kind[c], "register")]
    /\ UNCHANGED <<connection, connGuard, message_handler, receiver, connLock, chan,
                   kind, reqId, ret, yielded, wire, frames, recvPos, fate, attempts,
                   established, spawned, outstandingAtSendError>>
    /\ UNCHANGED <<lockOrder, pollVars, validationVars, serviceVars, codecVars, sseVars, callVars>>

\* register_request under the connection's lock: insert (replacing any entry
\* held under the same id).
register_request(c) ==
    /\ pc[c] = "register"
    /\ connLock = 0
    /\ pending_requests' = [pending_requests EXCEPT ![reqId[c]] = c]
    /\ pc' = [pc EXCEPT ![c] = StepOrder(kind[c], "register")]
    /\ UNCHANGED <<connection, connGuard, message_handler, receiver, connLock, chan,
                   kind, reqId, ret, yielded, wire, frames, recvPos, fate, attempts,
                   established, spawned, outstandingAtSendError>>
    /\ UNCHANGED <<lockOrder, pollVars, validationVars, serviceVars, codecVars, sseVars, callVars>>

\* Mutant of send_begin: the caller does not wait for the connection's lock.
send_begin_unlocked(c) ==
    /\ pc[c] = "send"
    /\ connLock' = c
    /\ pc' = [pc EXCEPT ![c] = "sending"]
    /\ UNCHANGED <<connection, connGuard, message_handler, receiver, pending_requests,
                   chan, kind, reqId, ret, yielded, wire, frames, recvPos, fate,
                   attempts, established, spawned, outstandingAtSendError>>
    /\ lockOrder' = Append(lockOrder, c)
    /\ UNCHANGED <<pollVars, validationVars, serviceVars, codecVars, sseVars, callVars>>

\* The caller takes the connection's lock and send_message awaits sink.send.
send_begin(c) ==
    /\ pc[c] = "send"
    /\ connLock = 0
    /\ connLock' = c
    /\ pc' = [pc EXCEPT ![c] = "sending"]
    /\ UNCHANGED <<connection, connGuard, message_handler, receiver, pending_requests,
                   chan, kind, reqId, ret, yielded, wire, frames, recvPos, fate,
                   attempts, established, spawned, outstandingAtSendError>>
    /\ lockOrder' = Append(lockOrder, c)
    /\ UNCHANGED <<pollVars, validationVars, serviceVars, codecVars, sseVars, callVars>>

\* Mutant of send_ok: the connection's lock is not released after the send.
send_ok_keeps_lock(c) ==
    /\ pc[c] = "sending"
    /\ receiver = "running"
    /\ wire' = Append(wire, c)
    /\ pc' = [pc EXCEPT ![c] = StepOrder(kind[c], "sending")]
    /\ UNCHANGED <<connection, connGuard, message_handler, receiver, connLock,
                   pending_requests, chan, kind, reqId, ret, yielded, frames, recvPos,
                   fate, attempts, established, spawned, outstandingAtSendError>>
    /\ UNCHANGED <<lockOrder, pollVars, validationVars, serviceVars, codecVars, sseVars, callVars>>

\* sink.send returned Ok: the envelope is on the wire, the lock is released.
\* A socket whose Close frame or read error the receiver has consumed
\* accepts no more data frames.
send_ok(c) ==
    /\ pc[c] = "sending"
    /\ receiver = "running"
    /\ wire' = Append(wire, c)
    /\ connLock' = 0
    /\ pc' = [pc EXCEPT ![c] = StepOrder(kind[c], "sending")]
    /\ UNCHANGED <<connection, connGuard, message_handler, receiver, pending_requests,
                   chan, kind, reqId, ret, yielded, frames, recvPos, fate, attempts,
                   established, spawned, outstandingAtSendError>>
    /\ UNCHANGED <<lockOrder, pollVars, validationVars, serviceVars, codecVars, sseVars, callVars>>

\* sink.send returned Err: `?` returns Transport to this caller only; the
\* slot, the pending map and the other callers are left as they are.
send_fail(c) ==
    /\ pc[c] = "sending"
    /\ connLock' = 0
    /\ pc' = [pc EXCEPT ![c] = "done"]
    /\ ret' = [ret EXCEPT ![c] = Err(TransportSend)]
    /\ outstandingAtSendError' = outstandingAtSendError \cup
           {d \in Calls \ {c} : TxInMap(d) /\ pc[d] \in {"wait", "stream"}}
    /\ UNCHANGED <<connection, connGuard, message_handler, receiver, pending_requests,
                   chan, kind, reqId, yielded, wire, frames, recvPos, fate, attempts,
                   established, spawned>>
    /\ UNCHANGED <<lockOrder, pollVars, validationVars, serviceVars, codecVars, sseVars, callVars>>

\* ------------------------------------------------------------ waiting (execute)
\* timeout(30 s, rx.recv()) polls rx.recv() first: a queued value wins over
\* the deadline, and a closed empty channel yields None at once.

\* rx.recv() yielded Some(value): the call returns status 200 with the
\* serialized value as body; rx is dropped.
recv_value(c) ==
    /\ pc[c] = "wait"
    /\ chan[c] # <<>>
    /\ ret' = [ret EXCEPT ![c] = Ok(Head(chan[c]))]
    /\ chan' = [chan EXCEPT ![c] = <<>>]
    /\ pc' = [pc EXCEPT ![c] = "done"]
    /\ UNCHANGED <<connection, connGuard, message_handler, receiver, connLock,
                   pending_requests, kind, reqId, yielded, wire, frames, recvPos, fate,
                   attempts, established, spawned, outstandingAtSendError>>
    /\ UNCHANGED <<lockOrder, pollVars, validationVars, serviceVars, codecVars, sseVars, callVars>>

\* Mutant of recv_timeout: the timed-out caller closes the connection (empties
\* the slot).
recv_timeout_closes(c) ==
    /\ pc[c] = "wait"
    /\ chan[c] = <<>>
    /\ TxInMap(c)
    /\ ret' = [ret EXCEPT ![c] = Err(Timeout)]
    /\ pc' = [pc EXCEPT ![c] = "done"]
    /\ connection' = 0
    /\ UNCHANGED <<connGuard, message_handler, receiver, connLock,
                   pending_requests, chan, kind, reqId, yielded, wire, frames, recvPos,
                   fate, attempts, established, spawned, outstandingAtSendError>>
    /\ UNCHANGED <<lockOrder, pollVars, validationVars, serviceVars, codecVars, sseVars, callVars>>

\* The deadline elapsed with nothing queued: map_err(|_| Timeout)?.
\* Nothing but the caller's own future is touched.
recv_timeout(c) ==
    /\ pc[c] = "wait"
    /\ chan[c] = <<>>
    /\ TxInMap(c)
    /\ ret' = [ret EXCEPT ![c] = Err(Timeout)]
    /\ pc' = [pc EXCEPT ![c] = "done"]
    /\ UNCHANGED <<connection, connGuard, message_handler, receiver, connLock,
                   pending_requests, chan, kind, reqId, yielded, wire, frames, recvPos,
                   fate, attempts, established, spawned, outstandingAtSendError>>
    /\ UNCHANGED <<lockOrder, pollVars, validationVars, serviceVars, codecVars, sseVars, callVars>>

\* rx.recv() yielded None (the sender was dropped, nothing queued):
\* ok_or_else(|| Transport("Response channel closed"))?.
recv_closed(c) ==
    /\ pc[c] = "wait"
    /\ chan[c] = <<>>
    /\ ~TxInMap(c)
    /\ ret' = [ret EXCEPT ![c] = Err(TransportClosed)]
    /\ pc' = [pc EXCEPT ![c] = "done"]
    /\ UNCHANGED <<connection, connGuard, message_handler, receiver, connLock,
                   pending_requests, chan, kind, reqId, yielded, wire, frames, recvPos,
                   fate, attempts, established, spawned, outstandingAtSendError>>
    /\ UNCHANGED <<lockOrder, pollVars, validationVars, serviceVars, codecVars, sseVars, callVars>>

\* The application drops the future of execute while it waits.
drop_future(c) ==
    /\ pc[c] = "wait"
    /\ ret' = [ret EXCEPT ![c] = Err("Dropped")]
    /\ chan' = [chan EXCEPT ![c] = <<>>]
    /\ pc' = [pc EXCEPT ![c] = "done"]
    /\ UNCHANGED <<connection, connGuard, message_handler, receiver, connLock,
                   pending_requests, kind, reqId, yielded, wire, frames, recvPos, fate,
                   attempts, established, spawned, outstandingAtSendError>>
    /\ UNCHANGED <<lockOrder, pollVars, validationVars, serviceVars, codecVars, sseVars, callVars>>

\* ------------------------------------------------------------ the stream
\* value_to_sse_event: every value becomes Ok(SseEvent) whose payload is the value.
value_to_sse_event(n) == n

\* unfold: rx.recv() yielded Some(value), the stream yields its event.
stream_next(c) ==
    /\ pc[c] = "stream"
    /\ chan[c] # <<>>
    /\ yielded' = [yielded EXCEPT ![c] = Append(@, value_to_sse_event(Head(chan[c])))]
    /\ chan' = [chan EXCEPT ![c] = Tail(@)]
    /\ UNCHANGED <<connection, connGuard, message_handler, receiver, connLock,
                   pending_requests, pc, kind, reqId, ret, wire, frames, recvPos, fate,
                   attempts, established, spawned, outstandingAtSendError>>
    /\ UNCHANGED <<lockOrder, pollVars, validationVars, serviceVars, codecVars, sseVars, callVars>>

\* unfold: rx.recv() yielded None, the stream ends.
stream_end(c) ==
    /\ pc[c] = "stream"
    /\ chan[c] = <<>>
    /\ ~TxInMap(c)
    /\ pc' = [pc EXCEPT ![c] = "done"]
    /\ ret' = [ret EXCEPT ![c] = Err("StreamEnded")]
    /\ UNCHANGED <<connection, connGuard, message_handler, receiver, connLock,
                   pending_requests, chan, kind, reqId, yielded, wire, frames, recvPos,
                   fate, attempts, established, spawned, outstandingAtSendError>>
    /\ UNCHANGED <<lockOrder, pollVars, validationVars, serviceVars, codecVars, sseVars, callVars>>

\* The consumer drops the stream.
drop_stream(c) ==
    /\ pc[c] = "stream"
    /\ pc' = [pc EXCEPT ![c] = "done"]
    /\ ret' = [ret EXCEPT ![c] = Err("Dropped")]
    /\ chan' = [chan EXCEPT ![c] = <<>>]
    /\ UNCHANGED <<connection, connGuard, message_handler, receiver, connLock,
                   pending_requests, kind, reqId, yielded, wire, frames, recvPos, fate,
                   attempts, established, spawned, outstandingAtSendError>>
    /\ UNCHANGED <<lockOrder, pollVars, validationVars, serviceVars, codecVars, sseVars, callVars>>

\* ------------------------------------------------------------ the receiver task
Fate(t, c) == [tag |-> t, call |-> c]

\* Mutant of Responder: the lookup ignores the id and takes any entry.
ResponderAny(i) ==
    IF \E j \in Ids : pending_requests[j] # 0
    THEN pending_requests[CHOOSE j \in Ids : pending_requests[j] # 0 /\
                              \A k \in Ids : pending_requests[k] # 0 => k >= j]
    ELSE 0

\* Mutant of RemoveEntry: the entry is read with get and stays in the map.
KeepEntry(i) == pending_requests

\* pending.remove(&id): the responder registered under the frame's id.
Responder(i) == pending_requests[i]

\* pending.remove(&id): the map without the entry.
RemoveEntry(i) == [pending_requests EXCEPT ![i] = 0]

\* handle_response(id, result) for frame n: remove the entry under id and
\* send the result on it; the sender is dropped afterwards.  A send on a
\* channel whose receiver is gone fails and is ignored (let _ =).
handle_response(i, n) ==
    LET c == Responder(i)
    IN  IF c = 0
        THEN /\ fate' = Append(fate, Fate("noresponder", 0))
             /\ UNCHANGED <<pending_requests, chan>>
        ELSE /\ pending_requests' = RemoveEntry(i)
             /\ IF RxAlive(c)
                THEN /\ chan' = [chan EXCEPT ![c] = Append(@, n)]
                     /\ fate' = Append(fate, Fate("delivered", c))
                ELSE /\ fate' = Append(fate, Fate("orphan", c))
                     /\ UNCHANGED chan

\* A text frame with a string id and a result: lock the connection and
\* handle_response.
recv_result ==
    /\ receiver = "running"
    /\ recvPos < Len(frames)
    /\ frames[recvPos + 1].kind = "result"
    /\ connLock = 0
    /\ recvPos' = recvPos + 1
    /\ handle_response(frames[recvPos + 1].id, recvPos + 1)
    /\ UNCHANGED <<connection, connGuard, message_handler, receiver, connLock, pc, kind,
                   reqId, ret, yielded, wire, frames, attempts, established, spawned,
                   outstandingAtSendError>>
    /\ UNCHANGED <<lockOrder, pollVars, validationVars, serviceVars, codecVars, sseVars, callVars>>

\* The frames the receiver's match does nothing for: binary, ping and pong
\* messages, text that is not JSON, and JSON text without a string id ("noid")
\* or without a result member ("error": an envelope with a string id and an
\* error member only); "other" stands for any of them.
IgnoredFrames == {"other", "binary", "ping", "pong", "notjson", "noid", "error"}

\* An envelope with a string id and an error member but no result.
ErrorFrame(i) == [kind |-> "error", id |-> i, re |-> FALSE]

\* Mutant of recv_other: an error frame removes the entry under its id, as a
\* result frame does.
recv_other_takes_entry ==
    /\ receiver = "running"
    /\ recvPos < Len(frames)
    /\ frames[recvPos + 1].kind \in IgnoredFrames
    /\ recvPos' = recvPos + 1
    /\ fate' = Append(fate, Fate("ignored", 0))
    /\ pending_requests' = IF frames[recvPos + 1].kind = "error"
                           THEN RemoveEntry(frames[recvPos + 1].id)
                           ELSE pending_requests
    /\ UNCHANGED <<connection, connGuard, message_handler, receiver, connLock,
                   chan, pc, kind, reqId, ret, yielded, wire, frames,
                   attempts, established, spawned, outstandingAtSendError>>
    /\ UNCHANGED <<lockOrder, pollVars, validationVars, serviceVars, codecVars, sseVars, callVars>>

\* Any other frame that is not Close (binary, ping, pong, text that is not a
\* JSON object with a string id and a result): nothing happens.
recv_other ==
    /\ receiver = "running"
    /\ recvPos < Len(frames)
    /\ frames[recvPos + 1].kind \in IgnoredFrames
    /\ recvPos' = recvPos + 1
    /\ fate' = Append(fate, Fate("ignored", 0))
    /\ UNCHANGED <<connection, connGuard, message_handler, receiver, connLock,
                   pending_requests, chan, pc, kind, reqId, ret, yielded, wire, frames,
                   attempts, established, spawned, outstandingAtSendError>>
    /\ UNCHANGED <<lockOrder, pollVars, validationVars, serviceVars, codecVars, sseVars, callVars>>

\* Mutant of recv_exit: the loop goes on after a Close frame or a read error.
recv_exit_continues ==
    /\ receiver = "running"
    /\ recvPos < Len(frames)
    /\ frames[recvPos + 1].kind \in {"close", "readerr"}
    /\ recvPos' = recvPos + 1
    /\ fate' = Append(fate, Fate("exit", 0))
    /\ UNCHANGED <<connection, connGuard, message_handler, receiver, connLock,
                   pending_requests, chan, pc, kind, reqId, ret, yielded, wire, frames,
                   attempts, established, spawned, outstandingAtSendError>>
    /\ UNCHANGED <<lockOrder, pollVars, validationVars, serviceVars, codecVars, sseVars, callVars>>

\* A Close frame or a read error: break, the task ends.
recv_exit ==
    /\ receiver = "running"
    /\ recvPos < Len(frames)
    /\ frames[recvPos + 1].kind \in {"close", "readerr"}
    /\ recvPos' = recvPos + 1
    /\ fate' = Append(fate, Fate("exit", 0))
    /\ receiver' = "exited"
    /\ UNCHANGED <<connection, connGuard, message_handler, connLock, pending_requests,
                   chan, pc, kind, reqId, ret, yielded, wire, frames, attempts,
                   established, spawned, outstandingAtSendError>>
    /\ UNCHANGED <<lockOrder, pollVars, validationVars, serviceVars, codecVars, sseVars, callVars>>

\* ------------------------------------------------------------ the agent
\* The remote end puts a frame on the open socket.  Nothing follows a Close
\* frame or a read error.
OnWire(i) == \E k \in 1..Len(wire) : reqId[wire[k]] = i

\* The socket yields one more item to the receiver's source.next().
socket_yields(f) ==
    /\ connection # 0
    /\ Len(frames) < MaxFrames
    /\ frames' = Append(frames, f)
    /\ UNCHANGED <<connection, connGuard, message_handler, receiver, connLock,
                   pending_requests, chan, pc, kind, reqId, ret, yielded, wire, recvPos,
                   fate, attempts, established, spawned, outstandingAtSendError>>
    /\ UNCHANGED <<lockOrder, pollVars, validationVars, serviceVars, codecVars, sseVars, callVars>>

agent_send(f) ==
    /\ \A n \in 1..Len(frames) : frames[n].kind \notin {"close", "readerr"}
    /\ socket_yields(f)

agent_result == \E i \in Ids : agent_send(ResultFrame(i, OnWire(i)))

agent_other == \E k \in {"other", "close", "readerr"} : agent_send(PlainFrame(k))

\* ------------------------------------------------------------ specification
Next ==
    \/ \E c \in Calls : execute(c)
    \/ \E c \in Calls : execute_streaming(c)
    \/ \E c \in Calls : handshake_ok(c)
    \/ \E c \in Calls : handshake_fail(c)
    \/ \E c \in Calls : register_request(c)
    \/ \E c \in Calls : send_begin(c)
    \/ \E c \in Calls : send_ok(c)
    \/ \E c \in Calls : send_fail(c)
    \/ \E c \in Calls : recv_value(c)
    \/ \E c \in Calls : recv_timeout(c)
    \/ \E c \in Calls : recv_closed(c)
    \/ \E c \in Calls : drop_future(c)
    \/ \E c \in Calls : stream_next(c)
    \/ \E c \in Calls : stream_end(c)
    \/ \E c \in Calls : drop_stream(c)
    \/ recv_result
    \/ recv_other
    \/ recv_exit
    \/ agent_result
    \/ agent_other

Spec == Init /\ [][Next]_vars

\* Fair scheduling: a sink.send that was started completes (with Ok or Err),
\* and the receiver task, waiting in connection.lock().await for a frame it
\* has read, gets the lock when it is free again and again (tokio's Mutex
\* serves waiters in order).
Fairness ==
    /\ SF_vars(recv_result)
    /\ \A c \in Calls : WF_vars(send_ok(c) \/ send_fail(c))

\* Two execute calls, the receiver task and the agent.
NextFair ==
    \/ \E c \in Calls : execute(c)
    \/ \E c \in Calls : handshake_ok(c)
    \/ \E c \in Calls : handshake_fail(c)
    \/ \E c \in Calls : register_request(c)
    \/ \E c \in Calls : send_begin(c)
    \/ \E c \in Calls : send_ok(c)
    \/ \E c \in Calls : send_fail(c)
    \/ \E c \in Calls : recv_value(c)
    \/ \E c \in Calls : recv_timeout(c)
    \/ \E c \in Calls : recv_closed(c)
    \/ recv_result
    \/ recv_other
    \/ recv_exit
    \/ agent_result
    \/ agent_other

SpecFair == Init /\ [][NextFair]_vars /\ Fairness

\* ------------------------------------------------------------ frames in detail
\* The receiver task and execute calls under every kind of item the socket can
\* yield; items may go on arriving after a Close frame or a read error.
agent_frame ==
    \/ \E k \in (IgnoredFrames \ {"other", "error"}) \cup {"close", "readerr"} :
            socket_yields(PlainFrame(k))
    \/ \E i \in Ids : socket_yields(ErrorFrame(i))
    \/ \E i \in Ids : socket_yields(ResultFrame(i, OnWire(i)))

NextFrames ==
    \/ \E c \in Calls : execute(c)
    \/ \E c \in Calls : handshake_ok(c)
    \/ \E c \in Calls : handshake_fail(c)
    \/ \E c \in Calls : register_request(c)
    \/ \E c \in Calls : send_begin(c)
    \/ \E c \in Calls : send_ok(c)
    \/ \E c \in Calls : send_fail(c)
    \/ \E c \in Calls : recv_value(c)
    \/ \E c \in Calls : recv_timeout(c)
    \/ \E c \in Calls : recv_closed(c)
    \/ recv_result
    \/ recv_other
    \/ recv_exit
    \/ agent_frame

SpecFrames == Init /\ [][NextFrames]_vars

\* ============================================================ AgentClient
\* client/agent.rs: each method builds one request, calls the wrapped service
\* once and unwraps the response; poll_until_complete loops over get_task.

\* Bound on the polls of one poll_until_complete call (max_attempts = 0 is
\* unlimited in the code) and on the max_attempts values tried.
MaxFetches == 4
MaxAttemptsArg == 3

\* TaskStatus (protocol/task.rs)
TaskStatus == {"submitted", "working", "input-required", "auth-required",
               "completed", "failed", "cancelled", "rejected"}

\* Mutant of is_terminal: a task awaiting input counts as terminal.
is_terminal_or_waiting(s) ==
    s \in {"completed", "failed", "cancelled", "rejected", "input-required",
           "auth-required"}

\* Mutant of is_processing: a task awaiting input counts as processing.
is_processing_or_waiting(s) == s \in {"submitted", "working", "input-required"}

\* Task::is_terminal / is_processing / requires_input, on the task's status.
is_terminal(s) == s \in {"completed", "failed", "cancelled", "rejected"}
is_processing(s) == s \in {"submitted", "working"}
requires_input(s) == s \in {"input-required", "auth-required"}

\* TaskStatus::is_terminal / requires_action.
TaskStatus_is_terminal(s) == s \in {"completed", "failed", "cancelled", "rejected"}
TaskStatus_requires_action(s) == s \in {"input-required", "auth-required"}

\* What the wrapped service can return: Ok(A2AResponse) or Err(A2AError).
TaskResponse(s) == [tag |-> "Task", body |-> s]
OtherResponse(v) == [tag |-> v, body |-> ""]
ErrResponse(e) == [tag |-> "Err", body |-> e]
ServiceErrors == {"Transport", Timeout}
ServiceResponses ==
    {TaskResponse(s) : s \in TaskStatus}
        \cup {OtherResponse(v) : v \in {"TaskList", "AgentCard", "Empty"}}
        \cup {ErrResponse(e) : e \in ServiceErrors}

\* What a client method returns.
ClientOk(b) == [tag |-> "Ok", body |-> b]
ClientErr(e) == [tag |-> "Err", body |-> e]

ClientOps == {"send_message", "get_task", "list_tasks", "cancel_task", "discover"}

\* The response variant each method's `match` accepts.
Expected(op) ==
    CASE op \in {"send_message", "get_task", "cancel_task"} -> "Task"
      [] op = "list_tasks" -> "TaskList"
      [] op = "discover" -> "AgentCard"

\* `self.service.call(request).await?` followed by the match on the response.
Unwrap(op, r) ==
    IF r.tag = "Err" THEN ClientErr(r.body)
    ELSE IF r.tag = Expected(op) THEN ClientOk(r.body)
    ELSE ClientErr("Protocol")

\* Mutant of poll_loop_body: the attempts are compared with `>`.
poll_loop_body_late(res, a, m) ==
    IF res.tag = "Err" THEN "error"
    ELSE IF is_terminal(res.body) THEN "ok"
    ELSE IF m > 0 /\ a + 1 > m THEN "timeout"
    ELSE "sleep"

\* Mutant of poll_loop_body: a failed get_task is tried again after the sleep.
poll_loop_body_retry(res, a, m) ==
    IF res.tag = "Err" THEN "sleep"
    ELSE IF is_terminal(res.body) THEN "ok"
    ELSE IF m > 0 /\ a + 1 >= m THEN "timeout"
    ELSE "sleep"

\* One pass of poll_until_complete's loop body on get_task's result `res`
\* with `a` attempts counted so far: `?` returns an error, a terminal task is
\* returned, otherwise attempts is incremented and compared to max_attempts.
poll_loop_body(res, a, m) ==
    IF res.tag = "Err" THEN "error"
    ELSE IF is_terminal(res.body) THEN "ok"
    ELSE IF m > 0 /\ a + 1 >= m THEN "timeout"
    ELSE "sleep"

\* self.service.call(request)
service_call ==
    /\ issued' = issued + 1
    /\ clientPc' = "call"

\* A method is called on the idle client: it builds the request and calls the
\* service.
client_call(op, m) ==
    /\ clientPc = "idle"
    /\ clientOp' = op
    /\ max_attempts' = m
    /\ pollAttempts' = 0
    /\ service_call
    /\ UNCHANGED <<answers, sleeps, clientRet>>
    /\ UNCHANGED <<wsVars, validationVars, serviceVars, codecVars, sseVars, callVars>>

send_message == client_call("send_message", 0)
get_task == client_call("get_task", 0)
list_tasks == client_call("list_tasks", 0)
cancel_task == client_call("cancel_task", 0)
discover == client_call("discover", 0)
poll_until_complete(m) == client_call("poll_until_complete", m)

\* The service answers a send_message, get_task, list_tasks, cancel_task or
\* discover call: the method returns the unwrapped response.
method_returns(r) ==
    /\ clientPc = "call"
    /\ clientOp \in ClientOps
    /\ answers' = Append(answers, r)
    /\ clientRet' = Unwrap(clientOp, r)
    /\ clientPc' = "done"
    /\ UNCHANGED <<clientOp, max_attempts, pollAttempts, issued, sleeps>>
    /\ UNCHANGED <<wsVars, validationVars, serviceVars, codecVars, sseVars, callVars>>

\* The service answers the get_task call of the poll loop; the loop body runs
\* up to its return or its sleep.
poll_fetched(r) ==
    /\ clientPc = "call"
    /\ clientOp = "poll_until_complete"
    /\ answers' = Append(answers, r)
    /\ LET res == Unwrap("get_task", r)
           d == poll_loop_body(res, pollAttempts, max_attempts)
       IN  CASE d \in {"error", "ok"} ->
                  /\ clientRet' = res
                  /\ clientPc' = "done"
                  /\ UNCHANGED <<pollAttempts, sleeps>>
             [] d = "timeout" ->
                  /\ pollAttempts' = pollAttempts + 1
                  /\ clientRet' = ClientErr(Timeout)
                  /\ clientPc' = "done"
                  /\ UNCHANGED sleeps
             [] d = "sleep" ->
                  /\ pollAttempts' = pollAttempts + 1
                  /\ sleeps' = sleeps + 1
                  /\ clientPc' = "sleep"
                  /\ UNCHANGED clientRet
    /\ UNCHANGED <<clientOp, max_attempts, issued>>
    /\ UNCHANGED <<wsVars, validationVars, serviceVars, codecVars, sseVars, callVars>>

\* The sleep is over: the loop calls get_task again.
poll_sleep_done ==
    /\ clientPc = "sleep"
    /\ issued < MaxFetches
    /\ service_call
    /\ UNCHANGED <<clientOp, max_attempts, pollAttempts, answers, sleeps, clientRet>>
    /\ UNCHANGED <<wsVars, validationVars, serviceVars, codecVars, sseVars, callVars>>

NextPoll ==
    \/ send_message
    \/ get_task
    \/ list_tasks
    \/ cancel_task
    \/ discover
    \/ \E m \in 0..MaxAttemptsArg : poll_until_complete(m)
    \/ \E r \in ServiceResponses : method_returns(r)
    \/ \E r \in ServiceResponses : poll_fetched(r)
    \/ poll_sleep_done

SpecPoll == Init /\ [][NextPoll]_vars


\* ============================================================ A2AValidationService
\* layer/validation.rs: call validates the request, calls the inner service,
\* validates its response.

\* Longest message tried, in parts.
MaxParts == 2

\* Largest ListTasks limit and offset validate_request lets through.
LimitMax == 1000
OffsetMax == 1000000

\* A u32 far above both (limit and offset are Option<u32>; they are only
\* compared, never computed with).
LargeU32 == 2000000000

\* validate_request, a part of a SendMessage message.
validate_part(p) ==
    CASE p.kind = "text" ->
            IF p.text = "" THEN Validation("Text part cannot be empty") ELSE Valid
      [] p.kind = "file" ->
            IF p.name = "" THEN Validation("File name cannot be empty")
            ELSE IF ~p.file_with_uri.some /\ ~p.file_with_bytes.some
                 THEN Validation("File must have either URI or bytes content")
                 ELSE Valid
      [] p.kind = "data" -> Valid

\* The `for part in &message.parts` loop: the first invalid part returns.
RECURSIVE validate_parts(_)
validate_parts(ps) ==
    IF ps = <<>> THEN Valid
    ELSE IF validate_part(Head(ps)) # Valid THEN validate_part(Head(ps))
    ELSE validate_parts(Tail(ps))

\* validate_request, SendMessage arm.
validate_send_message(ps) ==
    IF ps = <<>> THEN Validation("Message must have at least one part")
    ELSE validate_parts(ps)

\* Mutant of validate_list_tasks: the largest limit is refused.
validate_list_tasks_below(limit, offset) ==
    IF limit.some /\ limit.val = 0 THEN Validation("Limit must be greater than 0")
    ELSE IF limit.some /\ limit.val >= LimitMax THEN Validation("Limit cannot exceed 1000")
    ELSE IF offset.some /\ offset.val > OffsetMax THEN Validation("Offset is too large")
    ELSE Valid

\* validate_request, ListTasks arm.
validate_list_tasks(limit, offset) ==
    IF limit.some /\ limit.val = 0 THEN Validation("Limit must be greater than 0")
    ELSE IF limit.some /\ limit.val > LimitMax THEN Validation("Limit cannot exceed 1000")
    ELSE IF offset.some /\ offset.val > OffsetMax THEN Validation("Offset is too large")
    ELSE Valid

\* validate_request, the match on the operation.
validate_operation(r) ==
    CASE r.op = "SendMessage" -> validate_send_message(r.parts)
      [] r.op \in {"GetTask", "CancelTask"} ->
            IF r.task_id = "" THEN Validation("Task ID cannot be empty") ELSE Valid
      [] r.op = "ListTasks" -> validate_list_tasks(r.limit, r.offset)
      [] r.op = "RegisterWebhook" ->
            IF r.url = "" THEN Validation("Webhook URL cannot be empty")
            ELSE IF r.events = <<>>
                 THEN Validation("Webhook must subscribe to at least one event")
                 ELSE Valid
      [] OTHER -> Valid

validate_request(r) ==
    IF validate_operation(r) # Valid THEN validate_operation(r)
    ELSE IF r.agent_url = "" THEN Validation("Agent URL cannot be empty")
    ELSE Valid

\* Mutant of validate_response: a failed task needs no error.
validate_response_lax(x) ==
    CASE x.tag = "Task" ->
            IF x.id = "" THEN Validation("Task ID cannot be empty")
            ELSE IF x.parts = <<>>
                 THEN Validation("Task input must have at least one part")
            ELSE IF x.status = "completed" /\ x.artifacts = <<>> /\ ~x.error.some
                 THEN Validation("Completed task must have artifacts or error")
            ELSE Valid
      [] x.tag = "AgentCard" ->
            IF x.name = "" THEN Validation("Agent name cannot be empty")
            ELSE IF x.endpoints = <<>>
                 THEN Validation("Agent card must have at least one endpoint")
            ELSE Valid
      [] OTHER -> Valid

validate_response(x) ==
    CASE x.tag = "Task" ->
            IF x.id = "" THEN Validation("Task ID cannot be empty")
            ELSE IF x.parts = <<>>
                 THEN Validation("Task input must have at least one part")
            ELSE IF x.status = "completed" /\ x.artifacts = <<>> /\ ~x.error.some
                 THEN Validation("Completed task must have artifacts or error")
            ELSE IF x.status = "failed" /\ ~x.error.some
                 THEN Validation("Failed task must have an error")
            ELSE Valid
      [] x.tag = "AgentCard" ->
            IF x.name = "" THEN Validation("Agent name cannot be empty")
            ELSE IF x.endpoints = <<>>
                 THEN Validation("Agent card must have at least one endpoint")
            ELSE Valid
      [] OTHER -> Valid

\* ------------------------------------------------------------ requests tried
OptionValues == {None, Some("x")}
AgentUrls == {"", "https://agent.example.com"}

Parts ==
    {TextPart(t) : t \in {"", "Hello"}}
        \cup {FilePart(n, u, b) : n \in {"", "a.txt"}, u \in OptionValues, b \in OptionValues}
        \cup {DataPart}

Messages == UNION {[1..n -> Parts] : n \in 0..MaxParts}

LimitValues == {0, 1, 2, LimitMax - 1, LimitMax, LimitMax + 1, LargeU32}
OffsetValues == {0, OffsetMax, OffsetMax + 1, LargeU32}

OptionU32(vs) == {NoneU32} \cup {Some(v) : v \in vs}

SendMessageRequests ==
    {Request("SendMessage", ps, "", NoneU32, NoneU32, "", <<>>, a) :
        ps \in Messages, a \in AgentUrls}

TaskIdRequests ==
    {Request(o, <<>>, t, NoneU32, NoneU32, "", <<>>, a) :
        o \in {"GetTask", "CancelTask"}, t \in {"", "task-123"}, a \in AgentUrls}

ListTasksRequests ==
    {Request("ListTasks", <<>>, "", l, f, "", <<>>, a) :
        l \in OptionU32(LimitValues), f \in OptionU32(OffsetValues), a \in AgentUrls}

RegisterWebhookRequests ==
    {Request("RegisterWebhook", <<>>, "", NoneU32, NoneU32, u, e, a) :
        u \in {"", "https://hook.example.com"}, e \in {<<>>, <<"task.completed">>},
        a \in AgentUrls}

OtherRequests ==
    {Request(o, <<>>, "", NoneU32, NoneU32, "", <<>>, a) :
        o \in {"DiscoverAgent", "SubscribeTask"}, a \in AgentUrls}

\* ------------------------------------------------------------ inner results tried
TaskResults ==
    {InnerResult("Task", i, ps, st, ar, er, "", <<>>) :
        i \in {"", "task-123"}, ps \in {<<>>, <<TextPart("Test")>>}, st \in TaskStatus,
        ar \in {<<>>, <<"artifact">>}, er \in OptionValues}

AgentCardResults ==
    {InnerResult("AgentCard", "", <<>>, "", <<>>, None, n, en) :
        n \in {"", "agent"}, en \in {<<>>, <<"endpoint">>}}

PlainResults ==
    {InnerResult(t, "", <<>>, "", <<>>, None, "", <<>>) : t \in {"TaskList", "Empty"}}

ErrorResults ==
    {InnerResult(e, "", <<>>, "", <<>>, None, "", <<>>) : e \in ServiceErrors}

\* ------------------------------------------------------------ call
\* Mutant of call: the inner service is called before the request is validated.
call_unvalidated(r) ==
    /\ validationPc = "idle"
    /\ req' = r
    /\ innerCalls' = Append(innerCalls, r)
    /\ IF validate_request(r) # Valid
       THEN /\ validationRet' = validate_request(r)
            /\ validationPc' = "done"
       ELSE /\ validationPc' = "inner"
            /\ UNCHANGED validationRet
    /\ UNCHANGED response
    /\ UNCHANGED <<wsVars, pollVars, serviceVars, codecVars, sseVars, callVars>>

\* call: a request that fails validate_request returns its error at once;
\* otherwise the request is handed to a clone of the inner service.
call(r) ==
    /\ validationPc = "idle"
    /\ req' = r
    /\ IF validate_request(r) # Valid
       THEN /\ validationRet' = validate_request(r)
            /\ validationPc' = "done"
            /\ UNCHANGED innerCalls
       ELSE /\ innerCalls' = Append(innerCalls, r)
            /\ validationPc' = "inner"
            /\ UNCHANGED validationRet
    /\ UNCHANGED response
    /\ UNCHANGED <<wsVars, pollVars, serviceVars, codecVars, sseVars, callVars>>

\* The inner service's future completes: `?` passes its error on, an Ok
\* response goes through validate_response and is returned as it is.
inner_returns(x) ==
    /\ validationPc = "inner"
    /\ response' = x
    /\ validationRet' =
          IF x.tag \in ServiceErrors THEN InnerError(x.tag)
          ELSE IF validate_response(x) # Valid THEN validate_response(x)
          ELSE OkResponse(x)
    /\ validationPc' = "done"
    /\ UNCHANGED <<req, innerCalls>>
    /\ UNCHANGED <<wsVars, pollVars, serviceVars, codecVars, sseVars, callVars>>

NextValidation ==
    \/ \E r \in SendMessageRequests : call(r)
    \/ \E r \in TaskIdRequests : call(r)
    \/ \E r \in ListTasksRequests : call(r)
    \/ \E r \in RegisterWebhookRequests : call(r)
    \/ \E r \in OtherRequests : call(r)
    \/ \E x \in TaskResults : inner_returns(x)
    \/ \E x \in AgentCardResults : inner_returns(x)
    \/ \E x \in PlainResults : inner_returns(x)
    \/ \E x \in ErrorResults : inner_returns(x)

SpecValidation == Init /\ [][NextValidation]_vars

\* ============================================================ protocol operations
\*
\* A2AOperation (protocol/operation.rs), one record shape for the seven
\* variants; a field a variant does not have holds its empty value.  A
\* task_id is an Option in every variant (Some for the variants in which it
\* is a plain String).

Op(o, m, s, c, t, st, l, f, n, u, e, a) ==
    [op |-> o, message |-> m, stream |-> s, context_id |-> c, task_id |-> t,
     status |-> st, limit |-> l, offset |-> f, next_token |-> n, url |-> u,
     events |-> e, auth |-> a]

SendMessage(m, s, c, t) ==
    Op("SendMessage", m, s, c, t, None, NoneU32, NoneU32, None, "", <<>>, None)
GetTask(t) ==
    Op("GetTask", <<>>, FALSE, None, Some(t), None, NoneU32, NoneU32, None, "", <<>>, None)
ListTasks(st, l, f, n) ==
    Op("ListTasks", <<>>, FALSE, None, None, st, l, f, n, "", <<>>, None)
CancelTask(t) ==
    Op("CancelTask", <<>>, FALSE, None, Some(t), None, NoneU32, NoneU32, None, "", <<>>, None)
DiscoverAgent ==
    Op("DiscoverAgent", <<>>, FALSE, None, None, None, NoneU32, NoneU32, None, "", <<>>, None)
SubscribeTask(t) ==
    Op("SubscribeTask", <<>>, FALSE, None, Some(t), None, NoneU32, NoneU32, None, "", <<>>, None)
RegisterWebhook(u, e, a) ==
    Op("RegisterWebhook", <<>>, FALSE, None, None, None, NoneU32, NoneU32, None, u, e, a)

\* Mutant of endpoint: a SendMessage that continues a task goes to /tasks.
endpoint_flat(o) ==
    CASE o.op = "SendMessage" -> "/tasks"
      [] o.op = "GetTask" -> "/tasks/" \o o.task_id.val
      [] o.op = "ListTasks" -> "/tasks"
      [] o.op = "CancelTask" -> "/tasks/" \o o.task_id.val \o "/cancel"
      [] o.op = "DiscoverAgent" -> "/.well-known/agent-card.json"
      [] o.op = "SubscribeTask" -> "/tasks/" \o o.task_id.val \o "/stream"
      [] o.op = "RegisterWebhook" -> "/webhooks"

\* A2AOperation::endpoint.
endpoint(o) ==
    CASE o.op = "SendMessage" ->
            IF o.task_id.some THEN "/tasks/" \o o.task_id.val ELSE "/tasks"
      [] o.op = "GetTask" -> "/tasks/" \o o.task_id.val
      [] o.op = "ListTasks" -> "/tasks"
      [] o.op = "CancelTask" -> "/tasks/" \o o.task_id.val \o "/cancel"
      [] o.op = "DiscoverAgent" -> "/.well-known/agent-card.json"
      [] o.op = "SubscribeTask" -> "/tasks/" \o o.task_id.val \o "/stream"
      [] o.op = "RegisterWebhook" -> "/webhooks"

\* A2AOperation::method.
method(o) ==
    CASE o.op = "SendMessage" -> IF o.task_id.some THEN "PUT" ELSE "POST"
      [] o.op = "GetTask" -> "GET"
      [] o.op = "ListTasks" -> "GET"
      [] o.op = "CancelTask" -> "POST"
      [] o.op = "DiscoverAgent" -> "GET"
      [] o.op = "SubscribeTask" -> "GET"
      [] o.op = "RegisterWebhook" -> "POST"

\* A2AOperation::is_streaming.
is_streaming(o) ==
    \/ o.op = "SendMessage" /\ o.stream
    \/ o.op = "SubscribeTask"

\* The operations the functions are applied to.
TaskIds == {"task-123", "task-456"}
MessageValues == {<<TextPart("Hello")>>}
OptionTaskIds == {None} \cup {Some(t) : t \in TaskIds}
OptionContextIds == {None, Some("ctx-1")}
OptionStatuses == {None, Some("working")}
OptionTokens == {None, Some("tok-1")}
OptionLimits == {NoneU32, Some(10)}
OptionOffsets == {NoneU32, Some(5)}
WebhookUrls == {"https://hooks.example.com/a2a"}
WebhookEvents == {<<>>, <<"task.completed">>}
OptionWebhookAuth == {None, Some("secret")}

Operations ==
    {SendMessage(m, s, c, t) :
        m \in MessageValues, s \in BOOLEAN, c \in OptionContextIds, t \in OptionTaskIds}
        \cup {GetTask(t) : t \in TaskIds}
        \cup {ListTasks(st, l, f, n) :
                st \in OptionStatuses, l \in OptionLimits, f \in OptionOffsets,
                n \in OptionTokens}
        \cup {CancelTask(t) : t \in TaskIds}
        \cup {DiscoverAgent}
        \cup {SubscribeTask(t) : t \in TaskIds}
        \cup {RegisterWebhook(u, e, a) :
                u \in WebhookUrls, e \in WebhookEvents, a \in OptionWebhookAuth}

\* One application of endpoint, method, is_streaming to an operation: a
\* behaviour applies one function once.
apply_endpoint ==
    /\ codecFn = "none"
    /\ \E o \in Operations :
        /\ codecFn' = "endpoint"
        /\ codecArg' = o
        /\ codecOut' = endpoint(o)
    /\ UNCHANGED <<wsVars, pollVars, validationVars, serviceVars, sseVars, callVars>>

apply_method ==
    /\ codecFn = "none"
    /\ \E o \in Operations :
        /\ codecFn' = "method"
        /\ codecArg' = o
        /\ codecOut' = method(o)
    /\ UNCHANGED <<wsVars, pollVars, validationVars, serviceVars, sseVars, callVars>>

apply_is_streaming ==
    /\ codecFn = "none"
    /\ \E o \in Operations :
        /\ codecFn' = "is_streaming"
        /\ codecArg' = o
        /\ codecOut' = is_streaming(o)
    /\ UNCHANGED <<wsVars, pollVars, validationVars, serviceVars, sseVars, callVars>>

\* The predicates of a task with status s, and of the status itself.
apply_task_predicates ==
    /\ codecFn = "none"
    /\ \E s \in TaskStatus :
        /\ codecFn' = "Task::predicates"
        /\ codecArg' = s
        /\ codecOut' = [is_terminal |-> is_terminal(s),
                        is_processing |-> is_processing(s),
                        requires_input |-> requires_input(s),
                        status_is_terminal |-> TaskStatus_is_terminal(s),
                        status_requires_action |-> TaskStatus_requires_action(s)]
    /\ UNCHANGED <<wsVars, pollVars, validationVars, serviceVars, sseVars, callVars>>

\* ============================================================ codecs
\*
\* Bytes on the wire are the empty byte string, bytes that are no JSON text,
\* or the JSON text of a value.  serde_json::to_vec writes a value as its
\* text (never the empty byte string); serde_json::from_slice reads a value
\* of the wanted type back, or fails.

EmptyBytes == [text |-> "empty", value |-> <<>>]
GarbageBytes == [text |-> "garbage", value |-> <<>>]
to_vec(v) == [text |-> "json", value |-> v]
is_empty(b) == b.text = "empty"

\* A JSON document that is a response body: what it has the shape of
\* ("task", "tasklist", "card", "other", "null") and what it holds.
JsonDoc(s, i) == [shape |-> s, id |-> i]
JsonNull == JsonDoc("null", "")

\* Result<A2AResponse, A2AError> of a decoder: the response variant and the
\* document it was read from, or the error variant and its message.
DecodeOk(k, v) == [ok |-> TRUE, kind |-> k, val |-> v, msg |-> ""]
DecodeErr(k, m) == [ok |-> FALSE, kind |-> k, val |-> "", msg |-> m]

\* serde_json::from_slice::<T>(body) followed by wrapping into the variant k.
from_slice(b, shape, k) ==
    IF b.text = "json" /\ b.value.shape = shape
    THEN DecodeOk(k, b.value.id)
    ELSE DecodeErr("Serialization", "")

\* JsonCodec::encode_request: the JSON object written for an operation, as
\* the function from its keys to their values.
json_object(o) ==
    CASE o.op = "SendMessage" ->
            [k \in {"message", "stream"}
                    \cup (IF o.context_id.some THEN {"contextId"} ELSE {})
                    \cup (IF o.task_id.some THEN {"taskId"} ELSE {}) |->
                CASE k = "message" -> o.message
                  [] k = "stream" -> o.stream
                  [] k = "contextId" -> o.context_id.val
                  [] k = "taskId" -> o.task_id.val]
      [] o.op = "CancelTask" -> [k \in {"taskId"} |-> o.task_id.val]
      [] o.op = "RegisterWebhook" ->
            [k \in {"url", "events"} \cup (IF o.auth.some THEN {"auth"} ELSE {}) |->
                CASE k = "url" -> o.url
                  [] k = "events" -> o.events
                  [] k = "auth" -> o.auth.val]
      [] OTHER -> <<>>

json_encode_request(o) == to_vec(json_object(o))

\* JsonCodec::decode_response.
json_decode_response(body, o) ==
    IF is_empty(body) THEN DecodeOk("Empty", "")
    ELSE CASE o.op \in {"SendMessage", "GetTask"} -> from_slice(body, "task", "Task")
           [] o.op = "ListTasks" -> from_slice(body, "tasklist", "TaskList")
           [] o.op = "DiscoverAgent" -> from_slice(body, "card", "AgentCard")
           [] o.op = "CancelTask" -> from_slice(body, "task", "Task")
           [] o.op = "SubscribeTask" -> DecodeOk("Empty", "")
           [] o.op = "RegisterWebhook" -> DecodeOk("Empty", "")

\* JsonRpcCodec::operation_to_method.
operation_to_method(o) ==
    CASE o.op = "SendMessage" -> IF o.stream THEN "message/stream" ELSE "message/send"
      [] o.op = "GetTask" -> "task/get"
      [] o.op = "ListTasks" -> "task/list"
      [] o.op = "CancelTask" -> "task/cancel"
      [] o.op = "DiscoverAgent" -> "agent/discover"
      [] o.op = "SubscribeTask" -> "task/subscribe"
      [] o.op = "RegisterWebhook" -> "webhook/register"

\* A JSON-RPC request envelope; its id is a JSON member (a string value,
\* absent, or of another type).
RequestEnvelope(m, p, i) ==
    [shape |-> "request", jsonrpc |-> "2.0", method |-> m, params |-> p, id |-> i]

\* JsonRpcCodec::encode_request: the params are read back from the bytes of
\* the plain encoding; id is the uuid generated for the request.
jsonrpc_encode_request(o, id) ==
    to_vec(RequestEnvelope(operation_to_method(o), json_encode_request(o).value,
                           [member |-> "value", val |-> id]))

\* A JSON-RPC response envelope as it stands in a body.  framed: the text is
\* an object with a string jsonrpc and an id.  A member is "absent", "null"
\* or holds a "value"; an error value that is no {code, message} object is
\* "malformed".
Member(m, d) == [member |-> m, doc |-> d]
ErrorMember(m, c, t) == [member |-> m, code |-> c, message |-> t]
Envelope(f, r, e) == [shape |-> "envelope", framed |-> f, result |-> r, error |-> e]

\* Mutant of jsonrpc_decode_response: a result wins over an error.
jsonrpc_decode_response_result_first(body, o) ==
    IF is_empty(body) THEN DecodeOk("Empty", "")
    ELSE IF \/ body.text # "json"
            \/ body.value.shape # "envelope"
            \/ ~body.value.framed
            \/ body.value.error.member = "malformed"
    THEN DecodeErr("Protocol", "Failed to parse JSON-RPC response")
    ELSE IF body.value.result.member = "value"
    THEN json_decode_response(to_vec(body.value.result.doc), o)
    ELSE IF body.value.error.member = "value"
    THEN DecodeErr("Protocol",
                   "JSON-RPC error " \o ToString(body.value.error.code) \o ": "
                        \o body.value.error.message)
    ELSE DecodeErr("Protocol", "JSON-RPC response missing 'result' field")

\* JsonRpcCodec::decode_response.  result and error are Option fields: serde
\* reads a null member as None.
jsonrpc_decode_response(body, o) ==
    IF is_empty(body) THEN DecodeOk("Empty", "")
    ELSE IF \/ body.text # "json"
            \/ body.value.shape # "envelope"
            \/ ~body.value.framed
            \/ body.value.error.member = "malformed"
    THEN DecodeErr("Protocol", "Failed to parse JSON-RPC response")
    ELSE IF body.value.error.member = "value"
    THEN DecodeErr("Protocol",
                   "JSON-RPC error " \o ToString(body.value.error.code) \o ": "
                        \o body.value.error.message)
    ELSE IF body.value.result.member # "value"
    THEN DecodeErr("Protocol", "JSON-RPC response missing 'result' field")
    ELSE json_decode_response(to_vec(body.value.result.doc), o)

\* The bodies the decoders are applied to.
JsonDocs ==
    {JsonDoc("task", "task-123"), JsonDoc("tasklist", "page-1"),
     JsonDoc("card", "Test Agent"), JsonDoc("other", "")}
JsonBodies == {EmptyBytes, GarbageBytes, to_vec(JsonNull)} \cup {to_vec(d) : d \in JsonDocs}

ResultMembers ==
    {Member("absent", JsonNull), Member("null", JsonNull)}
        \cup {Member("value", d) : d \in JsonDocs}
ErrorMembers ==
    {ErrorMember("absent", 0, ""), ErrorMember("null", 0, ""),
     ErrorMember("malformed", 0, ""), ErrorMember("value", -32600, "Invalid Request"),
     ErrorMember("value", -32001, "Task not found")}
Envelopes ==
    {Envelope(f, r, e) : f \in BOOLEAN, r \in ResultMembers, e \in ErrorMembers}
JsonRpcBodies == {EmptyBytes, GarbageBytes} \cup {to_vec(v) : v \in Envelopes}
UuidValues == {"0192-0001", "0192-0002"}

\* One application of a codec function.
apply_json_encode_request ==
    /\ codecFn = "none"
    /\ \E o \in Operations :
        /\ codecFn' = "JsonCodec::encode_request"
        /\ codecArg' = o
        /\ codecOut' = json_encode_request(o)
    /\ UNCHANGED <<wsVars, pollVars, validationVars, serviceVars, sseVars, callVars>>

apply_jsonrpc_encode_request ==
    /\ codecFn = "none"
    /\ \E o \in Operations, id \in UuidValues :
        /\ codecFn' = "JsonRpcCodec::encode_request"
        /\ codecArg' = o
        /\ codecOut' = jsonrpc_encode_request(o, id)
    /\ UNCHANGED <<wsVars, pollVars, validationVars, serviceVars, sseVars, callVars>>

apply_json_decode_response ==
    /\ codecFn = "none"
    /\ \E body \in JsonBodies, o \in Operations :
        /\ codecFn' = "JsonCodec::decode_response"
        /\ codecArg' = [body |-> body, operation |-> o]
        /\ codecOut' = json_decode_response(body, o)
    /\ UNCHANGED <<wsVars, pollVars, validationVars, serviceVars, sseVars, callVars>>

apply_jsonrpc_decode_response ==
    /\ codecFn = "none"
    /\ \E body \in JsonRpcBodies, o \in Operations :
        /\ codecFn' = "JsonRpcCodec::decode_response"
        /\ codecArg' = [body |-> body, operation |-> o]
        /\ codecOut' = jsonrpc_decode_response(body, o)
    /\ UNCHANGED <<wsVars, pollVars, validationVars, serviceVars, sseVars, callVars>>

\* ------------------------------------------------------------ SSE events
\*
\* A JSON member of an event's result: "absent", of another JSON type than
\* the one read ("other"), or a "value" of that type.
Absent == [member |-> "absent", val |-> ""]
OtherType == [member |-> "other", val |-> ""]
Str(s) == [member |-> "value", val |-> s]
AbsentBool == [member |-> "absent", val |-> FALSE]
Bool(b) == [member |-> "value", val |-> b]

\* The result member of an event's envelope: "absent", "null" or an object
\* "value" with its kind, final and state members.
SseResult(m, k, f, st) == [member |-> m, kind |-> k, final |-> f, state |-> st]

\* SseEvent { kind, payload, final_event }.
SseEvent(k, p, f) == [kind |-> k, payload |-> p, final_event |-> f]
NoSseEvent == SseEvent("", SseResult("absent", Absent, AbsentBool, Absent), FALSE)

\* SseEvent::is_terminal.
SseEvent_is_terminal(e) ==
    IF e.final_event THEN TRUE
    ELSE IF e.payload.state.member = "value"
    THEN e.payload.state.val \in {"completed", "failed", "canceled", "rejected"}
    ELSE FALSE

\* SseEvent::is_error.
SseEvent_is_error(e) ==
    IF e.payload.state.member = "value"
    THEN e.payload.state.val \in {"failed", "canceled", "rejected"}
    ELSE FALSE

\* One item of the byte stream after eventsource(): a transport error, or
\* an event whose data is no JSON text ("garbage") or a JSON object with its
\* error member (absent, null, or an object with or without a string
\* message) and its result member.
WireEvent(d, e, r) == [data |-> d, error |-> e, result |-> r]

\* Item of the returned stream: Ok(SseEvent) or Err(A2AError).
SseOk(e) == [ok |-> TRUE, event |-> e, kind |-> "", msg |-> ""]
SseErr(k, m) == [ok |-> FALSE, event |-> NoSseEvent, kind |-> k, msg |-> m]

\* The closure mapped over the event stream in SseCodec::parse_stream.
parse_event(w) ==
    IF w.data = "transport-error" THEN SseErr("Transport", "SSE stream error")
    ELSE IF w.data = "garbage" THEN SseErr("Protocol", "Failed to parse SSE event data")
    ELSE IF w.error.member # "absent"
    THEN SseErr("Protocol",
                "SSE stream error: "
                    \o (IF w.error.member = "value" THEN w.error.val ELSE "Unknown error"))
    ELSE IF w.result.member = "absent"
    THEN SseErr("Protocol", "SSE event missing 'result' field")
    ELSE SseOk(SseEvent(IF w.result.kind.member = "value" THEN w.result.kind.val ELSE "event",
                        w.result,
                        IF w.result.final.member = "value" THEN w.result.final.val
                        ELSE FALSE))

\* The events the predicates are applied to.
StateMembers ==
    {Absent, OtherType} \cup {Str(s) : s \in TaskStatus \cup {"canceled", "running"}}
SseEvents ==
    {SseEvent("status-update", SseResult("value", Str("status-update"), Bool(f), st), f) :
        f \in BOOLEAN, st \in StateMembers}

apply_sse_is_terminal ==
    /\ codecFn = "none"
    /\ \E e \in SseEvents :
        /\ codecFn' = "SseEvent::is_terminal"
        /\ codecArg' = e
        /\ codecOut' = SseEvent_is_terminal(e)
    /\ UNCHANGED <<wsVars, pollVars, validationVars, serviceVars, sseVars, callVars>>

apply_sse_is_error ==
    /\ codecFn = "none"
    /\ \E e \in SseEvents :
        /\ codecFn' = "SseEvent::is_error"
        /\ codecArg' = e
        /\ codecOut' = SseEvent_is_error(e)
    /\ UNCHANGED <<wsVars, pollVars, validationVars, serviceVars, sseVars, callVars>>

\* ------------------------------------------------------------ message parts
\*
\* A JSON object offered as a MessagePart: for each of the keys text, file,
\* data, whether it is "absent", holds a value of the variant's field type
\* ("valid": a string, a FileContent object, any JSON value) or another value
\* ("invalid").
PartObject(t, f, d) == [text |-> t, file |-> f, data |-> d]

\* Deserialize of the untagged enum MessagePart: the variants are tried in
\* the order Text, File, Data against the buffered object; a variant matches
\* when its own field reads, whatever other keys the object holds.
MessagePart_deserialize(obj) ==
    IF obj.text = "valid" THEN DecodeOk("Text", "")
    ELSE IF obj.file = "valid" THEN DecodeOk("File", "")
    ELSE IF obj.data = "valid" THEN DecodeOk("Data", "")
    ELSE DecodeErr("Serialization",
                   "data did not match any variant of untagged enum MessagePart")

PartObjects ==
    {PartObject(t, f, d) :
        t \in {"absent", "valid", "invalid"}, f \in {"absent", "valid", "invalid"},
        d \in {"absent", "valid"}}

apply_message_part_deserialize ==
    /\ codecFn = "none"
    /\ \E obj \in PartObjects :
        /\ codecFn' = "MessagePart::deserialize"
        /\ codecArg' = obj
        /\ codecOut' = MessagePart_deserialize(obj)
    /\ UNCHANGED <<wsVars, pollVars, validationVars, serviceVars, sseVars, callVars>>

NextCodec ==
    \/ apply_endpoint
    \/ apply_method
    \/ apply_is_streaming
    \/ apply_json_encode_request
    \/ apply_jsonrpc_encode_request
    \/ apply_json_decode_response
    \/ apply_jsonrpc_decode_response
    \/ apply_sse_is_terminal
    \/ apply_sse_is_error
    \/ apply_message_part_deserialize
    \/ apply_task_predicates

SpecCodec == Init /\ [][NextCodec]_vars

\* ------------------------------------------------------------ SseCodec::parse_stream
\*
\* The byte stream holds up to MaxEvents items; the returned stream maps
\* each of them, in order, as it is polled, and ends when the byte stream
\* ends.
MaxEvents == 3

WireEvents ==
    {WireEvent("transport-error", Absent, SseResult("absent", Absent, AbsentBool, Absent)),
     WireEvent("garbage", Absent, SseResult("absent", Absent, AbsentBool, Absent)),
     WireEvent("json", Str("Stream failed"), SseResult("absent", Absent, AbsentBool, Absent)),
     WireEvent("json", OtherType,
               SseResult("value", Str("status-update"), AbsentBool, Str("working"))),
     WireEvent("json", Absent, SseResult("absent", Absent, AbsentBool, Absent)),
     WireEvent("json", Absent,
               SseResult("value", Str("status-update"), AbsentBool, Str("working"))),
     WireEvent("json", Absent,
               SseResult("value", Str("artifact-update"), Bool(TRUE), Absent))}

parse_stream ==
    /\ sseInput = <<>>
    /\ \E n \in 1..MaxEvents : \E s \in [1..n -> WireEvents] : sseInput' = s
    /\ UNCHANGED <<ssePos, sseItems>>
    /\ UNCHANGED <<wsVars, pollVars, validationVars, serviceVars, codecVars, callVars>>

poll_next ==
    /\ ssePos < Len(sseInput)
    /\ ssePos' = ssePos + 1
    /\ sseItems' = Append(sseItems, parse_event(sseInput[ssePos + 1]))
    /\ UNCHANGED sseInput
    /\ UNCHANGED <<wsVars, pollVars, validationVars, serviceVars, codecVars, callVars>>

NextSse ==
    \/ parse_stream
    \/ poll_next

SpecSse == Init /\ [][NextSse]_vars

\* ============================================================ service stack
\*
\* AuthCredentials (layer/auth.rs).  The username and password of Basic are
\* held as their UTF-8 bytes.
Bearer(t) ==
    [scheme |-> "Bearer", token |-> t, key |-> "", header |-> "", username |-> <<>>,
     password |-> <<>>]
ApiKey(k, h) ==
    [scheme |-> "ApiKey", token |-> "", key |-> k, header |-> h, username |-> <<>>,
     password |-> <<>>]
Basic(u, p) ==
    [scheme |-> "Basic", token |-> "", key |-> "", header |-> "", username |-> u,
     password |-> p]
NoAuth == [some |-> FALSE, val |-> Bearer("")]

\* base64::engine::general_purpose::STANDARD: the alphabet A-Z a-z 0-9 + /
\* and '=' padding, three bytes to four characters.
Base64Alphabet ==
    <<"A", "B", "C", "D", "E", "F", "G", "H", "I", "J", "K", "L", "M", "N", "O", "P",
      "Q", "R", "S", "T", "U", "V", "W", "X", "Y", "Z", "a", "b", "c", "d", "e", "f",
      "g", "h", "i", "j", "k", "l", "m", "n", "o", "p", "q", "r", "s", "t", "u", "v",
      "w", "x", "y", "z", "0", "1", "2", "3", "4", "5", "6", "7", "8", "9", "+", "/">>
Base64Char(i) == Base64Alphabet[i + 1]

RECURSIVE base64_encode(_)
base64_encode(bytes) ==
    IF Len(bytes) = 0 THEN ""
    ELSE IF Len(bytes) = 1
    THEN Base64Char(bytes[1] \div 4) \o Base64Char((bytes[1] % 4) * 16) \o "=="
    ELSE IF Len(bytes) = 2
    THEN Base64Char(bytes[1] \div 4)
            \o Base64Char((bytes[1] % 4) * 16 + bytes[2] \div 16)
            \o Base64Char((bytes[2] % 16) * 4) \o "="
    ELSE Base64Char(bytes[1] \div 4)
            \o Base64Char((bytes[1] % 4) * 16 + bytes[2] \div 16)
            \o Base64Char((bytes[2] % 16) * 4 + bytes[3] \div 64)
            \o Base64Char(bytes[3] % 64)
            \o base64_encode(SubSeq(bytes, 4, Len(bytes)))

\* AuthCredentials::to_header: the header's name and value.
to_header(c) ==
    CASE c.scheme = "Bearer" -> [name |-> "Authorization", value |-> "Bearer " \o c.token]
      [] c.scheme = "ApiKey" -> [name |-> c.header, value |-> c.key]
      [] c.scheme = "Basic" ->
            [name |-> "Authorization",
             value |-> "Basic " \o base64_encode(c.username \o <<58>> \o c.password)]

\* RequestContext and A2ARequest (service/request.rs).  metadata is a map
\* from header names to values.
RequestContext(u, a, t, m) == [agent_url |-> u, auth |-> a, timeout |-> t, metadata |-> m]
A2ARequest(o, c) == [operation |-> o, context |-> c]

\* TransportRequest and TransportResponse (transport/mod.rs).
TransportRequest(e, m, h, b) == [endpoint |-> e, method |-> m, headers |-> h, body |-> b]
NoBody == [some |-> FALSE, val |-> EmptyBytes]
header(h, k, v) == [x \in DOMAIN h \cup {k} |-> IF x = k THEN v ELSE h[x]]
TransportResponse(s, b) == [ok |-> TRUE, status |-> s, body |-> b, error |-> ""]
TransportError(e) == [ok |-> FALSE, status |-> 0, body |-> EmptyBytes, error |-> e]
is_success(r) == r.status >= 200 /\ r.status < 300

\* Codec::encode_request and Codec::decode_response of the configured codec.
content_type == "application/a2a+json"
encode_request(codec, o, id) ==
    IF codec = "jsonrpc" THEN jsonrpc_encode_request(o, id) ELSE json_encode_request(o)
decode_response(codec, body, o) ==
    IF codec = "jsonrpc" THEN jsonrpc_decode_response(body, o)
    ELSE json_decode_response(body, o)

\* The metadata headers, inserted one by one over the headers h.
metadata_headers(h, md) ==
    [x \in DOMAIN h \cup DOMAIN md |-> IF x \in DOMAIN md THEN md[x] ELSE h[x]]

\* A2AProtocolService::build_transport_request.  Headers are inserted in
\* the order Content-Type, Accept, A2A-Version, the credential's header, the
\* metadata; a later insert of the same name replaces the earlier value.
build_transport_request(r, codec, id) ==
    LET h0 == header(header(header(<<>>, "Content-Type", content_type),
                            "Accept", content_type),
                     "A2A-Version", "1.0")
        h1 == IF r.context.auth.some
              THEN header(h0, to_header(r.context.auth.val).name,
                          to_header(r.context.auth.val).value)
              ELSE h0
        h2 == metadata_headers(h1, r.context.metadata)
        body == encode_request(codec, r.operation, id)
    IN  TransportRequest(endpoint(r.operation), method(r.operation), h2,
                         IF ~is_empty(body) /\ method(r.operation) # "GET"
                         THEN Some(body) ELSE NoBody)

\* The members message and taskId of an error body, when they are strings.
json_get_str(b, k) ==
    IF b.text = "json" /\ b.value.shape = "problem" /\ b.value[k].member = "value"
    THEN Some(b.value[k].val)
    ELSE None

\* A2AProtocolService::handle_error_response.
handle_error_response(r) ==
    IF json_get_str(r.body, "message").some
    THEN CASE r.status \in {401, 403} ->
                DecodeErr("Auth", json_get_str(r.body, "message").val)
           [] r.status = 404 ->
                IF json_get_str(r.body, "taskId").some
                THEN DecodeErr("TaskNotFound", json_get_str(r.body, "taskId").val)
                ELSE DecodeErr("Protocol", json_get_str(r.body, "message").val)
           [] r.status = 429 -> DecodeErr("RateLimitExceeded", "")
           [] OTHER ->
                DecodeErr("Transport",
                          "HTTP " \o ToString(r.status) \o ": "
                                \o json_get_str(r.body, "message").val)
    ELSE DecodeErr("Transport", "HTTP error: " \o ToString(r.status))

\* A2AProtocolService::parse_transport_response.
parse_transport_response(r, codec, o) ==
    IF ~is_success(r) THEN handle_error_response(r)
    ELSE decode_response(codec, r.body, o)

\* AuthService::call up to the inner call: the request handed to the inner
\* service.
AuthService_call(credentials, r) ==
    [r EXCEPT !.context.auth = Some(credentials)]

\* AgentClient::build_context of a client built by A2AClientBuilder::build:
\* build() stores agent_url and timeout in the configuration and leaves the
\* builder's auth unused; the service is the bare A2AProtocolService.
DefaultTimeout == 30
build_context(builder) ==
    RequestContext(builder.agent_url, NoAuth,
                   IF builder.timeout.some THEN builder.timeout ELSE Some(DefaultTimeout),
                   <<>>)

\* The inputs of the service stack.
Bytes_u == <<117>>
Bytes_user == <<117, 115, 101, 114>>
Bytes_pass == <<112, 97, 115, 115>>
Credentials ==
    {Bearer("xyz"), ApiKey("k-1", "X-API-Key"), ApiKey("k-1", "Authorization"),
     Basic(Bytes_user, Bytes_pass), Basic(Bytes_u, Bytes_pass)}
MetadataMaps ==
    {<<>>, [k \in {"X-Request-Id"} |-> "r-1"], [k \in {"Authorization"} |-> "Bearer other"],
     [k \in {"X-API-Key"} |-> "k-2"]}
RequestContexts ==
    {RequestContext("https://agent.example.com", a, NoneU32, m) :
        a \in {NoAuth, Some(Bearer("old"))}, m \in MetadataMaps}
ServiceOperations ==
    {SendMessage(<<TextPart("Hello")>>, FALSE, None, None),
     SendMessage(<<TextPart("Hello")>>, TRUE, None, Some("task-123")),
     GetTask("task-123"), ListTasks(None, Some(10), NoneU32, None), CancelTask("task-123"),
     DiscoverAgent, RegisterWebhook("https://hooks.example.com/a2a", <<>>, None)}
Codecs == {"json", "jsonrpc"}
Builders ==
    {[agent_url |-> "https://agent.example.com", auth |-> a, timeout |-> t] :
        a \in {NoAuth, Some(Bearer("xyz"))}, t \in {NoneU32, Some(60)}}

\* The operations AgentClient's methods build (poll_until_complete calls
\* get_task).
ClientOperations ==
    {SendMessage(<<TextPart("Hello")>>, FALSE, None, None), GetTask("task-123"),
     ListTasks(None, Some(10), NoneU32, None), CancelTask("task-123"), DiscoverAgent}

Problem(m, t) == [shape |-> "problem", id |-> "", message |-> m, taskId |-> t]
ProblemBodies ==
    {to_vec(Problem(m, t)) :
        m \in {Absent, OtherType, Str("Unauthorized")}, t \in {Absent, Str("task-123")}}
ResponseBodies ==
    {EmptyBytes, GarbageBytes, to_vec(JsonDoc("task", "task-123")),
     to_vec(Envelope(TRUE, Member("value", JsonDoc("task", "task-123")),
                     ErrorMember("absent", 0, "")))}
        \cup ProblemBodies
StatusCodes == {200, 204, 301, 400, 401, 403, 404, 429, 500}
TransportResponses ==
    {TransportResponse(s, b) : s \in StatusCodes, b \in ResponseBodies}
        \cup {TransportError("Transport"), TransportError("Timeout")}

\* AuthService::call on a service stack AuthService over A2AProtocolService:
\* the credential is injected, the protocol service builds the transport
\* request and hands it to transport.execute.
auth_service_call ==
    /\ servicePc = "idle"
    /\ \E credentials \in Credentials, r \in {A2ARequest(o, c) : o \in ServiceOperations,
                                                                c \in RequestContexts},
          codec \in Codecs, id \in UuidValues :
        /\ stack' = [entry |-> "auth", codec |-> codec]
        /\ serviceReq' = [request |-> r, credentials |-> Some(credentials)]
        /\ innerReq' = AuthService_call(credentials, r)
        /\ transportReqs' =
                <<build_transport_request(AuthService_call(credentials, r), codec, id)>>
    /\ servicePc' = "transport"
    /\ UNCHANGED <<transportResp, decodeCalls, serviceRet>>
    /\ UNCHANGED <<wsVars, pollVars, validationVars, codecVars, sseVars, callVars>>

\* One operation of a client built by A2AClientBuilder (with or without
\* with_bearer_auth): the request goes to the A2AProtocolService the builder
\* created.
built_client_call ==
    /\ servicePc = "idle"
    /\ \E builder \in Builders, o \in ClientOperations, codec \in Codecs, id \in UuidValues :
        /\ stack' = [entry |-> "built", codec |-> codec]
        /\ serviceReq' = [request |-> A2ARequest(o, build_context(builder)),
                          credentials |-> builder.auth]
        /\ innerReq' = A2ARequest(o, build_context(builder))
        /\ transportReqs' =
                <<build_transport_request(A2ARequest(o, build_context(builder)), codec, id)>>
    /\ servicePc' = "transport"
    /\ UNCHANGED <<transportResp, decodeCalls, serviceRet>>
    /\ UNCHANGED <<wsVars, pollVars, validationVars, codecVars, sseVars, callVars>>

\* transport.execute returns: an error is passed on; a response is parsed.
transport_returns ==
    /\ servicePc = "transport"
    /\ \E r \in TransportResponses :
        /\ transportResp' = r
        /\ IF ~r.ok
           THEN /\ serviceRet' = DecodeErr(r.error, "")
                /\ UNCHANGED decodeCalls
           ELSE /\ serviceRet' = parse_transport_response(r, stack.codec,
                                                          innerReq.operation)
                /\ decodeCalls' = IF is_success(r) THEN Append(decodeCalls, r.body)
                                  ELSE decodeCalls
    /\ servicePc' = "done"
    /\ UNCHANGED <<stack, serviceReq, innerReq, transportReqs>>
    /\ UNCHANGED <<wsVars, pollVars, validationVars, codecVars, sseVars, callVars>>

NextService ==
    \/ auth_service_call
    \/ built_client_call
    \/ transport_returns

SpecService == Init /\ [][NextService]_vars

\* ============================================================ one WebSocket call
\*
\* One call (call 1) over WebSocketTransport followed from the bytes of its
\* request to the value it returns: either A2AProtocolService::call with the
\* JSON-RPC codec, or WebSocketTransport::execute / execute_streaming called
\* with a body of the caller's own.

\* tokio::time::timeout(Duration::from_secs(30), rx.recv()) in execute.
ResponseDeadline == 30

\* TransportRequest.body is Bytes, empty unless with_body was called.
request_body(tr) == IF tr.body.some THEN tr.body.val ELSE EmptyBytes

\* Mutant of parses: every body is taken as JSON.
parses_anything(b) == TRUE

\* serde_json::from_slice::<Value>(&request.body) succeeds.
parses(b) == b.text = "json"

\* execute: jsonrpc.get("id").and_then(as_str) or a fresh Uuid::now_v7().
request_id(b, uuid) ==
    IF b.value.id.member = "value" THEN b.value.id.val ELSE uuid

\* execute_streaming: jsonrpc.get("id").and_then(as_str).unwrap_or("").
streaming_request_id(b) ==
    IF b.value.id.member = "value" THEN b.value.id.val ELSE ""

\* The id string call 1 registers its responder under.
registered_id ==
    IF kind[1] = "execute" THEN request_id(callBody, callUuid)
    ELSE streaming_request_id(callBody)

\* send_message(jsonrpc): the text frames call 1 has put on the socket, each
\* the serialisation of the value parsed from the request body.
sent_frames == [k \in 1..Len(wire) |-> to_vec(callBody.value)]

\* The frame {jsonrpc, result, id} an agent answers with: id echoes the id
\* member of the envelope it received.  The receiver task reads it as a
\* result frame only when that id is a string.
reply_frame ==
    LET id == callBody.value.id
    IN  IF id.member = "value"
        THEN ResultFrame(IF id.val = registered_id THEN reqId[1]
                         ELSE CHOOSE j \in Ids : j # reqId[1], TRUE)
        ELSE PlainFrame("noid")

\* The inputs.
CallOperations == ServiceOperations \cup {SubscribeTask("task-123")}
CallContexts ==
    {RequestContext("wss://agent.example.com", NoAuth, t, <<>>) :
        t \in {NoneU32, Some(5), Some(60)}}
DirectBodies ==
    {EmptyBytes, GarbageBytes}
        \cup {to_vec(RequestEnvelope("task/get", <<>>, i)) :
                i \in {Str("req-1"), Absent, OtherType}}

\* A2AProtocolService::call up to transport.execute: the request is built
\* with the JSON-RPC codec; uuid is what Uuid::now_v7 would give execute.
ws_service_call ==
    /\ pc[1] = "idle"
    /\ callBody = NoCallBody
    /\ \E o \in CallOperations, c \in CallContexts, id \in UuidValues, uuid \in {"0192-0009"},
          d \in JsonDocs :
        /\ callReq' = A2ARequest(o, c)
        /\ callBody' = request_body(build_transport_request(A2ARequest(o, c), "jsonrpc", id))
        /\ callUuid' = uuid
        /\ agentResult' = d
    /\ UNCHANGED <<elapsed, callRet>>
    /\ UNCHANGED <<wsVars, pollVars, validationVars, serviceVars, codecVars, sseVars>>

\* The transport called directly with a body.
ws_transport_call ==
    /\ pc[1] = "idle"
    /\ callBody = NoCallBody
    /\ \E b \in DirectBodies, uuid \in {"0192-0009"}, d \in JsonDocs :
        /\ callBody' = b
        /\ callUuid' = uuid
        /\ agentResult' = d
    /\ UNCHANGED <<callReq, elapsed, callRet>>
    /\ UNCHANGED <<wsVars, pollVars, validationVars, serviceVars, codecVars, sseVars>>

\* execute / execute_streaming: the first statement is
\* serde_json::from_slice(&request.body)?, which returns the Serialization
\* error.
execute_rejects_body(c, k) ==
    /\ CanStart(c)
    /\ callBody # NoCallBody
    /\ ~parses(callBody)
    /\ kind' = [kind EXCEPT ![c] = k]
    /\ pc' = [pc EXCEPT ![c] = "done"]
    /\ ret' = [ret EXCEPT ![c] = Err("Serialization")]
    /\ UNCHANGED <<connection, connGuard, message_handler, receiver, connLock,
                   pending_requests, chan, reqId, yielded, wire, frames, recvPos, fate,
                   attempts, established, spawned, outstandingAtSendError>>
    /\ UNCHANGED <<lockOrder, pollVars, validationVars, serviceVars, codecVars, sseVars, callVars>>

\* The body parses and the call goes on to get_connection.  The protocol
\* service calls execute only.
ws_execute ==
    /\ callBody # NoCallBody
    /\ parses(callBody)
    /\ execute(1)

ws_execute_streaming ==
    /\ callBody # NoCallBody
    /\ callReq = NoCallRequest
    /\ parses(callBody)
    /\ execute_streaming(1)

ws_execute_rejects ==
    \E k \in IF callReq = NoCallRequest THEN {"execute", "streaming"} ELSE {"execute"} :
        execute_rejects_body(1, k)

\* The agent answers the request it received, once.
agent_reply ==
    /\ Len(wire) > 0
    /\ frames = <<>>
    /\ agent_send(reply_frame)

\* An A2AError from the transport as a decoder's error value.
transport_error(tag) ==
    CASE tag = "Serialization" -> DecodeErr("Serialization", "")
      [] tag = Timeout -> DecodeErr("Timeout", "")
      [] OTHER -> DecodeErr("Transport", tag)

\* execute returns.  Ok: TransportResponse { status: 200, body:
\* to_vec(&response_value) }, response_value being the result member handed
\* over by the receiver task; the protocol service passes it to
\* parse_transport_response.  elapsed is the time the call spent in
\* timeout(.., rx.recv()) when that gave up.
ws_call_returns ==
    /\ callBody # NoCallBody
    /\ callRet = NoCallRet
    /\ kind[1] = "execute"
    /\ pc[1] = "done"
    /\ callRet' =
            IF ret[1].tag # "Ok" THEN transport_error(ret[1].tag)
            ELSE IF callReq = NoCallRequest
            THEN DecodeOk("TransportResponse", agentResult.id)
            ELSE parse_transport_response(TransportResponse(200, to_vec(agentResult)),
                                          "jsonrpc", callReq.operation)
    /\ elapsed' = IF ret[1].tag = Timeout THEN ResponseDeadline ELSE 0
    /\ UNCHANGED <<callReq, callBody, callUuid, agentResult>>
    /\ UNCHANGED <<wsVars, pollVars, validationVars, serviceVars, codecVars, sseVars>>

NextCall ==
    \/ ws_service_call
    \/ ws_transport_call
    \/ ws_execute
    \/ ws_execute_streaming
    \/ ws_execute_rejects
    \/ handshake_ok(1)
    \/ handshake_fail(1)
    \/ register_request(1)
    \/ send_begin(1)
    \/ send_ok(1)
    \/ send_fail(1)
    \/ recv_value(1)
    \/ recv_timeout(1)
    \/ recv_result
    \/ recv_other
    \/ agent_reply
    \/ ws_call_returns

SpecCall == Init /\ [][NextCall]_vars

\* ============================================================ claims
\* No two started calls carry the same request id.
DistinctIds == \A c, d \in Started : c # d => reqId[c] # reqId[d]

\* Call c is the only started call registered under its id.
OnlyCallWithId(c) == c \in Started /\ \A d \in Started \ {c} : reqId[d] # reqId[c]

\* The frames whose result the receiver task handed to the responder of call c.
Handed(c) == {n \in 1..recvPos : fate[n] = Fate("delivered", c)}

\* C1: with pairwise distinct ids, an execute call that returns Ok returns the
\* result of a frame carrying its own id (and so no other call's id), and a
\* call whose reply frame was handed to its responder returns that frame's
\* result, whatever the order of the frames.
C1_OwnResult ==
    DistinctIds =>
        \A c \in Calls : kind[c] = "execute" =>
            /\ ret[c].tag = "Ok" =>
                   /\ ret[c].body \in 1..recvPos
                   /\ frames[ret[c].body].kind = "result"
                   /\ frames[ret[c].body].id = reqId[c]
                   /\ \A d \in Started \ {c} : frames[ret[c].body].id # reqId[d]
            /\ \A n \in Handed(c) :
                   (frames[n].re /\ pc[c] = "done" /\ ret[c].tag # "Dropped")
                       => ret[c] = Ok(n)

\* C1 witness: two execute calls with distinct ids both returned Ok, the
\* frames having arrived in the reverse of the send order.
C1_Witness ==
    /\ kind[1] = "execute" /\ kind[2] = "execute"
    /\ wire = <<1, 2>>
    /\ ret[1].tag = "Ok" /\ ret[2].tag = "Ok"
    /\ ret[2].body < ret[1].body

\* C2: at most one frame is ever handed to a call's responder; a result frame
\* that finds no responder (a second frame with the id) or a responder whose
\* caller is gone (timed out, dropped) changes no caller's result, queue or
\* position, leaves the receiver task running and touches no other entry.
C2_AtMostOnce == \A c \in Calls : Cardinality(Handed(c)) <= 1

C2_DiscardStep ==
    (/\ recvPos' = recvPos + 1
     /\ frames[recvPos + 1].kind = "result"
     /\ \/ pending_requests[frames[recvPos + 1].id] = 0
        \/ ~RxAlive(pending_requests[frames[recvPos + 1].id]))
    => /\ ret' = ret /\ chan' = chan /\ yielded' = yielded /\ pc' = pc
       /\ receiver = "running" /\ receiver' = "running"
       /\ \A j \in Ids \ {frames[recvPos + 1].id} :
              pending_requests'[j] = pending_requests[j]

\* C2: both parts, the count in every state and the discard in every step.
\* A frame handled while no live responder is under its id is discarded.
C2_SingleDelivery == [](C2_AtMostOnce) /\ [][C2_DiscardStep]_vars

\* C2 witness: after a frame was handed to a call, a second frame with the same
\* id found no responder, and a frame for a timed-out call found its orphan.
C2_Witness ==
    /\ \E n1, n2 \in 1..recvPos :
           /\ n1 < n2
           /\ fate[n1].tag = "delivered"
           /\ frames[n2].kind = "result" /\ frames[n2].id = frames[n1].id
           /\ fate[n2].tag = "noresponder"
    /\ \E n \in 1..recvPos :
           /\ fate[n].tag = "orphan"
           /\ ret[fate[n].call] = Err(Timeout)
    /\ receiver = "running"

\* The frames handed to call c, in the order the receiver task read them.
HandedSeq(c) ==
    LET F[n \in 0..recvPos] ==
            IF n = 0 THEN <<>>
            ELSE IF fate[n] = Fate("delivered", c) THEN Append(F[n - 1], n)
                 ELSE F[n - 1]
    IN  F[recvPos]

\* C3 (as claimed): while the consumer holds the stream of a subscription,
\* every result frame with its id that the receiver task reads once the
\* subscription delivers is handed to it, the stream yields them in order, and
\* the stream stays open after the first event.
C3_StreamYieldsEveryFrame ==
    DistinctIds =>
        \A c \in Calls : (kind[c] = "streaming" /\ pc[c] = "stream") =>
            /\ \A n1, n2 \in 1..recvPos :
                   (/\ n1 < n2
                    /\ fate[n1] = Fate("delivered", c)
                    /\ frames[n2].kind = "result"
                    /\ frames[n2].id = reqId[c])
                   => fate[n2] = Fate("delivered", c)
            /\ yielded[c] \o chan[c] = HandedSeq(c)
            /\ yielded[c] # <<>> => TxInMap(c)

\* C4: a result frame the agent sends in reply to the envelope of an execute
\* call (the only call under its id) finds the call's responder registered,
\* unless an earlier frame already took it; and from the moment the envelope
\* is on the wire the responder is in the map until a frame takes it.
C4_RegisteredBeforeSend ==
    \A c \in Calls : (kind[c] = "execute" /\ OnlyCallWithId(c)) =>
        /\ \A n \in 1..recvPos :
               (/\ frames[n].kind = "result"
                /\ frames[n].id = reqId[c]
                /\ frames[n].re
                /\ \A m \in 1..(n - 1) : fate[m].call # c)
               => fate[n].call = c
        /\ (OnWire(reqId[c]) /\ \A m \in 1..recvPos : fate[m].call # c) => TxInMap(c)

\* C4 witness: the reply to an execute call's envelope was handed to its
\* responder while another call was in flight.
C4_Witness ==
    \E c \in Calls : \E n \in 1..recvPos :
        /\ kind[c] = "execute" /\ OnlyCallWithId(c)
        /\ frames[n].re /\ fate[n] = Fate("delivered", c)
        /\ \E d \in Started \ {c} : pc[d] # "done"

\* C5 (as claimed): a result frame the agent sends in reply to the envelope of
\* a subscription (the only call under its id) finds the responder registered,
\* unless an earlier frame already took it.
C5_StreamRegisteredBeforeSend ==
    \A c \in Calls : (kind[c] = "streaming" /\ OnlyCallWithId(c)) =>
        \A n \in 1..recvPos :
            (/\ frames[n].kind = "result"
             /\ frames[n].id = reqId[c]
             /\ frames[n].re
             /\ \A m \in 1..(n - 1) : fate[m].call # c)
            => fate[n].call = c

\* C6 (as claimed): once an execute call has returned Timeout the pending map
\* holds no entry of that call, and no later frame finds its responder.
C6_TimeoutRemovesEntry ==
    \A c \in Calls : ret[c] = Err(Timeout) =>
        /\ ~TxInMap(c)
        /\ \A n \in 1..recvPos : fate[n] # Fate("orphan", c)

\* C7: a wait that ends on the deadline returns Timeout and changes nothing of
\* the connection slot, its guard, the connection's lock, the receiver task or
\* the handshake counts; a call that starts after a timeout takes the
\* connection from the slot without a handshake.
C7_TimeoutStep ==
    \A c \in Calls :
        (/\ pc[c] = "wait" /\ chan[c] = <<>> /\ TxInMap(c)
         /\ pc'[c] = "done" /\ ret'[c].tag # "Dropped")
        => /\ ret'[c] = Err(Timeout)
           /\ connection' = connection /\ connection # 0
           /\ connGuard' = connGuard /\ connLock' = connLock
           /\ message_handler' = message_handler /\ receiver' = receiver
           /\ attempts' = attempts /\ established' = established
           /\ spawned' = spawned
           /\ frames' = frames /\ recvPos' = recvPos /\ wire' = wire

C7_ReuseStep ==
    \A d \in Calls :
        (/\ pc[d] = "idle" /\ pc'[d] # "idle"
         /\ \E c \in Calls : ret[c] = Err(Timeout))
        => /\ pc'[d] # "handshake"
           /\ connection' = connection /\ connection # 0
           /\ attempts' = attempts /\ established' = established
           /\ spawned' = spawned

\* C7: every step is a timeout that leaves the connection alone, a start that
\* reuses the connection after a timeout, or neither.
C7_TimeoutKeepsConnection == [][C7_TimeoutStep /\ C7_ReuseStep]_vars

\* C7 witness: one call has timed out and another call, on the same and only
\* connection, has its envelope on the wire and waits.
C7_Witness ==
    \E c, d \in Calls :
        /\ ret[c] = Err(Timeout)
        /\ kind[d] = "execute" /\ pc[d] = "wait"
        /\ wire = <<c, d>>
        /\ connection = 1 /\ attempts = 1 /\ established = 1 /\ receiver = "running"

\* C8: at most one connection is ever established and it is the one in the
\* slot, one receiver task is spawned for it, no handshake starts before a
\* call does, and a frame is consumed only by a step of the running receiver
\* task, in which no caller moves.
C8_OneConnection ==
    /\ established <= 1
    /\ connection = established
    /\ spawned = established
    /\ message_handler <=> (spawned = 1)
    /\ (receiver # "none") <=> (spawned = 1)
    /\ Started = {} => attempts = 0

C8_ReadStep ==
    recvPos' # recvPos =>
        /\ receiver = "running"
        /\ recvPos' = recvPos + 1
        /\ pc' = pc /\ ret' = ret /\ yielded' = yielded

\* C8: one connection and one receiver task in every state, frames consumed
\* by the receiver task alone in every step.
C8_SingleConnection == [](C8_OneConnection) /\ [][C8_ReadStep]_vars

\* C8 witness: an execute call and a subscription both hold the one
\* connection, and the receiver task has read a frame.
C8_Witness ==
    /\ \A c \in Calls : pc[c] \in {"wait", "stream"}
    /\ \E c, d \in Calls : kind[c] = "execute" /\ kind[d] = "streaming"
    /\ established = 1 /\ spawned = 1 /\ recvPos >= 1

\* C9: a failed handshake gives its caller the Transport error and leaves the
\* slot empty, the guard free, no receiver task and no pending entry; a call
\* that starts with the slot empty starts a handshake.
C9_FailStep ==
    \A c \in Calls :
        (pc[c] = "handshake" /\ pc'[c] = "done")
        => /\ ret'[c] = Err(TransportConnect)
           /\ connection' = connection
           /\ connGuard' = 0
           /\ spawned' = spawned /\ receiver' = receiver
           /\ message_handler' = message_handler
           /\ pending_requests' = pending_requests

C9_RetryStep ==
    \A d \in Calls :
        (pc[d] = "idle" /\ pc'[d] # "idle" /\ connection = 0)
        => pc'[d] = "handshake" /\ attempts' = attempts + 1

C9_NothingBeforeConnect ==
    established = 0 =>
        /\ connection = 0 /\ receiver = "none" /\ ~message_handler /\ spawned = 0
        /\ pending_requests = EmptyMap
        /\ \A c \in Calls : pc[c] \in {"idle", "handshake", "done"}
        /\ \A c \in Calls : pc[c] = "done" => ret[c] = Err(TransportConnect)

\* C9: nothing exists before a handshake succeeds, a failing handshake changes
\* nothing but its caller's result, and the next call tries again.
C9_HandshakeFailure ==
    [](C9_NothingBeforeConnect) /\ [][C9_FailStep /\ C9_RetryStep]_vars

\* C9 witness: the first call's handshake failed, the second call's handshake
\* succeeded and the second call is past it.
C9_Witness ==
    /\ ret[1] = Err(TransportConnect)
    /\ attempts = 2 /\ established = 1 /\ connection = 1
    /\ pc[2] \in {"wait", "stream"}

\* Transport errors of the taxonomy.
IsTransportError(r) == r.tag \in {TransportConnect, TransportSend, TransportClosed}

\* C10 (as claimed): after a send has failed, every execute call whose
\* responder was outstanding at that moment ends with a Transport error
\* (unless the application dropped its future).
C10_SendErrorFansOut ==
    \A d \in outstandingAtSendError :
        (kind[d] = "execute" /\ pc[d] = "done" /\ ret[d].tag # "Dropped")
            => IsTransportError(ret[d])

\* The second half of C10 as claimed: after a send has failed the slot no
\* longer holds an open connection.
C10_ConnectionLeavesOpen ==
    (\E c \in Calls : ret[c] = Err(TransportSend)) =>
        (connection = 0 \/ receiver = "exited")


\* C11: once the receiver task has exited (Close frame or read error), the
\* next call does not reuse the closed connection: it starts a new
\* handshake, which on success spawns a new receiver task.
C11_ReconnectAfterExit ==
    [][\A c \in Calls :
          (receiver = "exited" /\ pc[c] = "idle" /\ pc'[c] # "idle")
              => (pc'[c] = "handshake" /\ attempts' = attempts + 1)]_vars

\* The calls whose envelope is on the wire.
SentCalls == {wire[k] : k \in 1..Len(wire)}

\* C12 (mutual exclusion): at most one call is inside sink.send, and it is
\* the holder of the connection's lock.
C12_OneSender ==
    {c \in Calls : pc[c] = "sending"} = (IF connLock = 0 THEN {} ELSE {connLock})

\* C12 (whole envelopes): a step that changes the wire appends exactly one
\* envelope, that of the lock's holder, who then releases the lock.
C12_SendStep ==
    wire' # wire =>
        /\ connLock \in Calls
        /\ pc[connLock] = "sending"
        /\ wire' = Append(wire, connLock)
        /\ connLock' = 0

\* C12 (order): the envelopes are on the wire in the order in which their
\* callers acquired the lock.
C12_WireOrder == wire = SelectSeq(lockOrder, LAMBDA c : c \in SentCalls)

\* C12: sends of concurrent execute and execute_streaming calls are mutually
\* exclusive, each frame is one whole envelope, and the frames are on the
\* wire in the order in which the callers acquired the send lock.
C12_SendsSerialized ==
    [](C12_OneSender /\ C12_WireOrder) /\ [][C12_SendStep]_vars

\* Two calls of different kinds were started in the order 1, 2; call 2
\* acquired the lock first, and both envelopes are on the wire in that order.
C12_Witness ==
    /\ kind[1] # kind[2]
    /\ lockOrder = <<2, 1>>
    /\ wire = <<2, 1>>

\* ------------------------------------------------------------ poll loop claims
Polling == clientOp = "poll_until_complete"
PollDone == Polling /\ clientPc = "done"

\* The k-th answer of the service is a task in a terminal state.
TerminalAnswer(k) == answers[k].tag = "Task" /\ is_terminal(answers[k].body)
\* The k-th answer of the service is a task in a non-terminal state.
NonTerminalAnswer(k) == answers[k].tag = "Task" /\ ~is_terminal(answers[k].body)

\* C13 (only terminal tasks): Ok(task) is returned only for a task whose
\* status is completed, failed, cancelled or rejected, and it is the task of
\* the last fetch, all earlier fetches having returned non-terminal tasks.
C13_OkIsFirstTerminal ==
    (PollDone /\ clientRet.tag = "Ok") =>
        LET k == Len(answers)
        IN  /\ k >= 1
            /\ answers[k].tag = "Task"
            /\ answers[k].body \in {"completed", "failed", "cancelled", "rejected"}
            /\ clientRet = ClientOk(answers[k].body)
            /\ \A j \in 1..(k - 1) : NonTerminalAnswer(j)

\* C13 (exactly k fetches): when the k-th fetch returns a terminal task, the
\* poll is over with Ok(that task), exactly k GetTask calls have been issued
\* and k - 1 sleeps made (none after the k-th fetch); k is within max_attempts.
C13_StopsAtFirstTerminal ==
    Polling =>
        \A k \in 1..Len(answers) :
            TerminalAnswer(k) =>
                /\ k = Len(answers)
                /\ clientPc = "done"
                /\ clientRet = ClientOk(answers[k].body)
                /\ issued = k
                /\ sleeps = k - 1
                /\ (max_attempts = 0 \/ k <= max_attempts)

\* C13 (nothing follows): once the poll has returned, no GetTask call and no
\* sleep follows.
C13_DoneStep ==
    PollDone => (issued' = issued /\ sleeps' = sleeps /\ clientRet' = clientRet)

\* C13: poll_until_complete returns Ok(task) only for a terminal task, the
\* first one GetTask returns; if that is the k-th fetch, exactly k GetTask
\* calls are issued and no sleep follows the k-th.
C13_ReturnsFirstTerminal ==
    [](C13_OkIsFirstTerminal /\ C13_StopsAtFirstTerminal) /\ [][C13_DoneStep]_vars

\* The third fetch of a poll with max_attempts = 3 returned the first
\* terminal task and the poll returned it.
C13_Witness ==
    /\ PollDone
    /\ max_attempts = 3
    /\ Len(answers) = 3
    /\ NonTerminalAnswer(1) /\ NonTerminalAnswer(2)
    /\ TerminalAnswer(3)
    /\ clientRet = ClientOk(answers[3].body)
    /\ issued = 3
    /\ sleeps = 2

\* max_attempts = N > 0 and the first N fetches all returned non-terminal tasks.
Exhausted ==
    /\ max_attempts > 0
    /\ Len(answers) >= max_attempts
    /\ \A j \in 1..max_attempts : NonTerminalAnswer(j)

\* The last GetTask call failed with A2AError::Timeout.
FetchTimedOut ==
    /\ Len(answers) >= 1
    /\ answers[Len(answers)] = ErrResponse(Timeout)

\* C14 as stated: the poll returns Timeout if and only if max_attempts = N > 0
\* and the first N fetched tasks are all non-terminal, exactly N GetTask calls
\* having been issued; with max_attempts = 0 it never returns Timeout.
C14_TimeoutIffExhausted ==
    PollDone =>
        /\ (clientRet = ClientErr(Timeout)) <=> (Exhausted /\ issued = max_attempts)
        /\ (max_attempts = 0 => clientRet # ClientErr(Timeout))

\* C14 amended (1): the poll returns Timeout if and only if the attempts are
\* exhausted or the last GetTask call itself failed with Timeout; with
\* max_attempts = 0 only the latter can happen.
C14_TimeoutCauses ==
    PollDone =>
        /\ (clientRet = ClientErr(Timeout)) <=> (Exhausted \/ FetchTimedOut)
        /\ (max_attempts = 0 /\ clientRet = ClientErr(Timeout) => FetchTimedOut)

\* C14 amended (2): when the first N fetches were non-terminal the poll is
\* over with Timeout after exactly N GetTask calls, and a poll with
\* max_attempts = N > 0 never issues more than N.
C14_ExhaustedWithinN ==
    /\ (Polling /\ Exhausted) =>
          /\ clientPc = "done"
          /\ clientRet = ClientErr(Timeout)
          /\ issued = max_attempts
          /\ Len(answers) = max_attempts
    /\ (Polling /\ max_attempts > 0) => issued <= max_attempts

\* C14 (amended): poll_until_complete returns A2AError::Timeout if and only if
\* either max_attempts = N > 0 and the first N fetched tasks are all
\* non-terminal (then exactly N GetTask calls have been issued), or a GetTask
\* call itself failed with A2AError::Timeout; with max_attempts = 0 only a
\* failed GetTask call yields Timeout.
C14_TimeoutAmended == C14_TimeoutCauses /\ C14_ExhaustedWithinN

\* A poll with max_attempts = 2 fetched two non-terminal tasks and returned
\* Timeout after exactly two GetTask calls.
C14_Witness ==
    /\ PollDone
    /\ max_attempts = 2
    /\ Len(answers) = 2
    /\ NonTerminalAnswer(1) /\ NonTerminalAnswer(2)
    /\ clientRet = ClientErr(Timeout)
    /\ issued = 2

\* C15: the poll issues another GetTask only after a fetch that returned a
\* task still being processed (submitted or working); after a fetch that
\* returned an input-required or auth-required task no GetTask follows.
C15_RefetchOnlyWhileProcessing ==
    Polling =>
        \A k \in 1..Len(answers) :
            issued > k => (answers[k].tag = "Task" /\ is_processing(answers[k].body))

\* C16 (single-call methods): send_message, get_task, list_tasks, cancel_task
\* and discover issue exactly one service call and return its unwrapped
\* result, a failure as it is.
C16_OneServiceCall ==
    clientOp \in ClientOps =>
        /\ issued = 1
        /\ Len(answers) <= 1
        /\ clientPc = "done" =>
              /\ Len(answers) = 1
              /\ clientRet = Unwrap(clientOp, answers[1])
              /\ answers[1].tag = "Err" => clientRet = ClientErr(answers[1].body)

\* C16 (poll): the first get_task that fails (the service's error, or a
\* response that is not a task) ends the poll with that error, and it is the
\* last fetch.
C16_PollStopsAtFailure ==
    Polling =>
        \A k \in 1..Len(answers) :
            answers[k].tag # "Task" =>
                /\ k = Len(answers)
                /\ clientPc = "done"
                /\ clientRet = Unwrap("get_task", answers[k])
                /\ clientRet.tag = "Err"
                /\ issued = k

\* C16 (no call after the return): a method that has returned issues no
\* further service call.
C16_ReturnedStep == clientPc = "done" => issued' = issued

\* C16: no client operation retries a failed call: the single-call methods
\* issue exactly one service call, and in poll_until_complete the first
\* GetTask that fails ends the poll with that error, no fetch following.
C16_NoRetry ==
    [](C16_OneServiceCall /\ C16_PollStopsAtFailure) /\ [][C16_ReturnedStep]_vars

\* A poll without attempt limit fetched a working task, slept, and its second
\* GetTask failed: the poll returned that error after two service calls.
C16_Witness ==
    /\ PollDone
    /\ max_attempts = 0
    /\ Len(answers) = 2
    /\ answers[1] = TaskResponse("working")
    /\ answers[2] = ErrResponse("Transport")
    /\ clientRet = ClientErr("Transport")
    /\ issued = 2

\* ------------------------------------------------------------ validation claims
Called == validationPc # "idle"

\* C17 (refused): a request that fails request validation gets a Validation
\* error and the inner service is not called.
C17_RefusedNotForwarded ==
    (Called /\ validate_request(req) # Valid) =>
        /\ validationPc = "done"
        /\ validationRet.tag = "Validation"
        /\ validationRet = validate_request(req)
        /\ innerCalls = <<>>

\* C17 (passed): a request that passes is handed to the inner service exactly
\* once, as it was given.
C17_PassedForwardedOnce ==
    (Called /\ validate_request(req) = Valid) => innerCalls = <<req>>

\* C17: for every request that fails request validation the validation
\* service returns a Validation error and calls the inner service zero times;
\* for every request that passes, the inner service is called exactly once
\* with the request unchanged.
C17_ValidateBeforeInner == C17_RefusedNotForwarded /\ C17_PassedForwardedOnce

\* A SendMessage request whose message has no parts (agent_url set) was
\* refused with a Validation error and the inner service was not called.
C17_Witness ==
    /\ validationPc = "done"
    /\ req.op = "SendMessage"
    /\ req.parts = <<>>
    /\ req.agent_url # ""
    /\ validationRet = Validation("Message must have at least one part")
    /\ innerCalls = <<>>

\* The request was let through to the inner service / refused with a
\* Validation error.
Passed == innerCalls = <<req>>
Refused == validationPc = "done" /\ validationRet.tag = "Validation" /\ innerCalls = <<>>

\* C18: a ListTasks request with a non-empty agent_url passes request
\* validation if and only if limit is absent or 1 <= limit <= 1000 and
\* offset is absent or offset <= 1000000; everything else is refused with a
\* Validation error (limit 0 and 1001 are, limit 1 and 1000 are not).
C18_ListTasksBounds ==
    (Called /\ req.op = "ListTasks" /\ req.agent_url # "") =>
        /\ Passed <=>
              /\ (~req.limit.some \/ (1 <= req.limit.val /\ req.limit.val <= 1000))
              /\ (~req.offset.some \/ req.offset.val <= 1000000)
        /\ ~Passed => Refused
        /\ req.limit \in {Some(0), Some(1001)} => Refused
        /\ (req.limit \in {Some(1), Some(1000)} /\ ~req.offset.some) => Passed

\* A ListTasks request with limit 1000 and offset 1000000 was let through.
C18_Witness ==
    /\ req.op = "ListTasks"
    /\ req.agent_url # ""
    /\ req.limit = Some(1000)
    /\ req.offset = Some(1000000)
    /\ Passed

\* A part as C19 requires it: a text part is non-empty; a file part has a
\* non-empty name and exactly one of file_with_uri and file_with_bytes.
WellFormedPart(p) ==
    /\ p.kind = "text" => p.text # ""
    /\ p.kind = "file" =>
          /\ p.name # ""
          /\ p.file_with_uri.some # p.file_with_bytes.some

\* C19: a SendMessage request with a non-empty agent_url passes request
\* validation if and only if the message has at least one part, every text
\* part is non-empty, and every file part has a non-empty name and exactly one
\* of file_with_uri and file_with_bytes; any other is refused with a
\* Validation error.
C19_SendMessageParts ==
    (Called /\ req.op = "SendMessage" /\ req.agent_url # "") =>
        /\ Passed <=>
              /\ Len(req.parts) >= 1
              /\ \A k \in 1..Len(req.parts) : WellFormedPart(req.parts[k])
        /\ ~Passed => Refused

\* The conditions of C20 on a response of the inner service.
WellFormedResponse(x) ==
    /\ x.tag = "Task" =>
          /\ x.id # ""
          /\ x.parts # <<>>
          /\ x.status = "completed" => (x.artifacts # <<>> \/ x.error.some)
          /\ x.status = "failed" => x.error.some
    /\ x.tag = "AgentCard" =>
          /\ x.name # ""
          /\ x.endpoints # <<>>

\* The inner service returned Ok(response).
InnerOk == validationPc = "done" /\ response.tag \in {"Task", "AgentCard", "TaskList", "Empty"}

\* C20 (what is returned as Ok): a Task returned as Ok has a non-empty id and
\* non-empty input.parts, artifacts or an error when completed, an error when
\* failed; an AgentCard returned as Ok has a non-empty name and an endpoint.
C20_OkIsWellFormed ==
    validationRet.tag = "Ok" => WellFormedResponse(validationRet.resp)

\* C20 (unchanged or refused): an inner response meeting the conditions is
\* returned as it is, any other gives a Validation error.
C20_UnchangedOrRefused ==
    InnerOk =>
        IF WellFormedResponse(response)
        THEN validationRet = OkResponse(response)
        ELSE validationRet.tag = "Validation"

\* C20: every Task or AgentCard response the validation service returns as Ok
\* meets the response conditions; an inner response meeting them is returned
\* unchanged and any other gives a Validation error.
C20_ResponseValidated == C20_OkIsWellFormed /\ C20_UnchangedOrRefused

\* A failed task carrying an error (and a well-formed id and input) came
\* back from the inner service and was returned as it is.
C20_Witness ==
    /\ InnerOk
    /\ response.tag = "Task"
    /\ response.status = "failed"
    /\ response.error.some
    /\ response.artifacts = <<>>
    /\ validationRet = OkResponse(response)

\* ------------------------------------------------------------ C21
\* Helper: the call went through AuthService and its transport request has
\* been built.
ThroughAuth == stack.entry = "auth" /\ servicePc # "idle"

\* C21: for every request passed through AuthService into the protocol
\* service, whatever auth or metadata its context already holds, the
\* transport request carries the header named by the layer's credential with
\* exactly the credential's value (Bearer: Authorization = "Bearer <token>";
\* ApiKey: <header> = <key>; Basic: Authorization = "Basic " and the base64
\* of "user:password", e.g. "Basic dXNlcjpwYXNz" for user:pass), and the
\* operation and the other context fields are passed on unchanged.
C21_CredentialHeaderSent ==
    ThroughAuth =>
        LET c == serviceReq.credentials.val
            t == transportReqs[1]
            n == IF c.scheme = "ApiKey" THEN c.header ELSE "Authorization"
        IN  /\ n \in DOMAIN t.headers
            /\ t.headers[n] = to_header(c).value
            /\ c.scheme = "Bearer" => t.headers[n] = "Bearer " \o c.token
            /\ c.scheme = "ApiKey" => t.headers[n] = c.key
            /\ c = Basic(Bytes_user, Bytes_pass) => t.headers[n] = "Basic dXNlcjpwYXNz"
            /\ c = Basic(Bytes_u, Bytes_pass) => t.headers[n] = "Basic dTpwYXNz"
            /\ innerReq.operation = serviceReq.request.operation
            /\ innerReq.context.agent_url = serviceReq.request.context.agent_url
            /\ innerReq.context.timeout = serviceReq.request.context.timeout
            /\ innerReq.context.metadata = serviceReq.request.context.metadata

\* The part of C21 that holds: the credential the context held is replaced
\* by the layer's, the rest of the request is passed on unchanged, and the
\* header carries the credential's value unless the metadata names it.
C21_HeaderUnlessMetadata ==
    ThroughAuth =>
        LET c == serviceReq.credentials.val
            t == transportReqs[1]
        IN  /\ innerReq.context.auth = Some(c)
            /\ innerReq = [serviceReq.request EXCEPT !.context.auth = Some(c)]
            /\ to_header(c).name \in DOMAIN t.headers
            /\ to_header(c).name \notin DOMAIN serviceReq.request.context.metadata
                    => t.headers[to_header(c).name] = to_header(c).value

\* ------------------------------------------------------------ C22
\* C22: for a client built by A2AClientBuilder with with_bearer_auth("xyz"),
\* every transport request issued by a client operation carries the header
\* Authorization: Bearer xyz.
C22_BuiltClientSendsBearer ==
    (stack.entry = "built" /\ serviceReq.credentials = Some(Bearer("xyz"))) =>
        \A i \in 1..Len(transportReqs) :
            /\ "Authorization" \in DOMAIN transportReqs[i].headers
            /\ transportReqs[i].headers["Authorization"] = "Bearer xyz"

\* ------------------------------------------------------------ C23
\* Helper: the protocol service has parsed a transport response.
Parsed == servicePc = "done" /\ transportResp.ok

\* C23: for every transport response with a non-2xx status and any body the
\* protocol service returns an error whose kind is fixed by the status (401
\* or 403: Auth; 404: TaskNotFound when the body carries taskId and Protocol
\* otherwise; 429: RateLimitExceeded; any other: Transport) and
\* decode_response is not called; for a 2xx status the body is handed to the
\* codec.
C23_ErrorKindByStatus ==
    Parsed =>
        IF is_success(transportResp)
        THEN /\ decodeCalls = <<transportResp.body>>
             /\ serviceRet = decode_response(stack.codec, transportResp.body,
                                             innerReq.operation)
        ELSE /\ decodeCalls = <<>>
             /\ ~serviceRet.ok
             /\ serviceRet.kind =
                    CASE transportResp.status \in {401, 403} -> "Auth"
                      [] transportResp.status = 404 ->
                            IF json_get_str(transportResp.body, "taskId").some
                            THEN "TaskNotFound" ELSE "Protocol"
                      [] transportResp.status = 429 -> "RateLimitExceeded"
                      [] OTHER -> "Transport"

\* The part of C23 that holds: decode_response is called exactly for a 2xx
\* status, and the kinds are those of the claim when the body is a JSON
\* object with a string message.
C23_ErrorKindWithMessage ==
    Parsed =>
        /\ decodeCalls = IF is_success(transportResp) THEN <<transportResp.body>> ELSE <<>>
        /\ (~is_success(transportResp) /\ json_get_str(transportResp.body, "message").some)
                => serviceRet.kind =
                        CASE transportResp.status \in {401, 403} -> "Auth"
                          [] transportResp.status = 404 ->
                                IF json_get_str(transportResp.body, "taskId").some
                                THEN "TaskNotFound" ELSE "Protocol"
                          [] transportResp.status = 429 -> "RateLimitExceeded"
                          [] OTHER -> "Transport"

\* ------------------------------------------------------------ C24
\* Helper: the row of the mapping table for an operation.
MappingTable(o) ==
    CASE o.op = "SendMessage" /\ ~o.task_id.some -> <<"POST", "/tasks">>
      [] o.op = "SendMessage" /\ o.task_id.some -> <<"PUT", "/tasks/" \o o.task_id.val>>
      [] o.op = "GetTask" -> <<"GET", "/tasks/" \o o.task_id.val>>
      [] o.op = "ListTasks" -> <<"GET", "/tasks">>
      [] o.op = "CancelTask" -> <<"POST", "/tasks/" \o o.task_id.val \o "/cancel">>
      [] o.op = "DiscoverAgent" -> <<"GET", "/.well-known/agent-card.json">>
      [] o.op = "SubscribeTask" -> <<"GET", "/tasks/" \o o.task_id.val \o "/stream">>
      [] o.op = "RegisterWebhook" -> <<"POST", "/webhooks">>

\* C24: for every operation, endpoint(), method() and is_streaming() return
\* the values of the mapping table; the method is one of GET, POST, PUT; and
\* is_streaming is true exactly for SendMessage with stream = true and for
\* SubscribeTask.
C24_MappingTable ==
    /\ codecFn = "endpoint" => codecOut = MappingTable(codecArg)[2]
    /\ codecFn = "method" =>
            /\ codecOut = MappingTable(codecArg)[1]
            /\ codecOut \in {"GET", "POST", "PUT"}
    /\ codecFn = "is_streaming" =>
            (codecOut <=> (\/ codecArg.op = "SendMessage" /\ codecArg.stream
                           \/ codecArg.op = "SubscribeTask"))

\* C24 witness: endpoint() applied to a SendMessage that continues a task.
C24_Witness ==
    /\ codecFn = "endpoint"
    /\ codecArg.op = "SendMessage"
    /\ codecArg.task_id = Some("task-123")
    /\ codecOut = "/tasks/task-123"

\* ------------------------------------------------------------ C25
\* Helpers: JsonRpcCodec::decode_response was applied to a body that is a
\* response envelope; what the claim asks of the result when a member counts
\* as present under the predicate has(_).
OnEnvelope ==
    /\ codecFn = "JsonRpcCodec::decode_response"
    /\ codecArg.body.text = "json"
    /\ codecArg.body.value.framed
    /\ codecArg.body.value.error.member # "malformed"

EnvelopeDecoded(hasError, hasResult) ==
    LET env == codecArg.body.value
    IN  IF hasError
        THEN /\ ~codecOut.ok
             /\ codecOut.kind = "Protocol"
             /\ env.error.member = "value" =>
                    codecOut.msg = "JSON-RPC error " \o ToString(env.error.code) \o ": "
                                        \o env.error.message
        ELSE IF ~hasResult
        THEN ~codecOut.ok /\ codecOut.kind = "Protocol"
        ELSE codecOut = json_decode_response(to_vec(env.result.doc), codecArg.operation)

\* C25: JsonRpcCodec::decode_response on a response envelope returns a
\* Protocol error carrying the error code and message whenever the envelope
\* has an error member (also when a result member is present too), returns a
\* Protocol error when it has neither result nor error, and otherwise returns
\* exactly what the plain-JSON decoder returns for the result value and the
\* originating operation.  Read as written: a member is had when its key is
\* in the envelope, whatever its value.
C25_EnvelopeDecoding ==
    OnEnvelope =>
        EnvelopeDecoded(codecArg.body.value.error.member # "absent",
                        codecArg.body.value.result.member # "absent")

\* C25 amended: the same, where a member whose value is null counts as
\* absent.
C25_NullIsAbsent ==
    OnEnvelope =>
        EnvelopeDecoded(codecArg.body.value.error.member = "value",
                        codecArg.body.value.result.member = "value")

\* C25 witness: an envelope with both an error and a result was decoded to
\* the Protocol error of the error member.
C25_Witness ==
    /\ OnEnvelope
    /\ codecArg.body.value.error = ErrorMember("value", -32600, "Invalid Request")
    /\ codecArg.body.value.result.member = "value"
    /\ codecOut = DecodeErr("Protocol", "JSON-RPC error -32600: Invalid Request")

\* ------------------------------------------------------------ C26
\* Helpers: the wire keys of the fields present in an operation, and the
\* field under a wire key.
PresentFields(o) ==
    CASE o.op \in {"GetTask", "CancelTask", "SubscribeTask"} -> {"taskId"}
      [] o.op = "ListTasks" ->
            (IF o.status.some THEN {"status"} ELSE {})
                \cup (IF o.limit.some THEN {"limit"} ELSE {})
                \cup (IF o.offset.some THEN {"offset"} ELSE {})
                \cup (IF o.next_token.some THEN {"nextToken"} ELSE {})
      [] o.op = "SendMessage" ->
            {"message", "stream"}
                \cup (IF o.context_id.some THEN {"contextId"} ELSE {})
                \cup (IF o.task_id.some THEN {"taskId"} ELSE {})
      [] o.op = "RegisterWebhook" ->
            {"url", "events"} \cup (IF o.auth.some THEN {"auth"} ELSE {})
      [] OTHER -> {}

FieldValue(o, k) ==
    CASE k = "taskId" -> o.task_id.val
      [] k = "status" -> o.status.val
      [] k = "limit" -> o.limit.val
      [] k = "offset" -> o.offset.val
      [] k = "nextToken" -> o.next_token.val
      [] k = "message" -> o.message
      [] k = "stream" -> o.stream
      [] k = "contextId" -> o.context_id.val
      [] k = "url" -> o.url
      [] k = "events" -> o.events
      [] k = "auth" -> o.auth.val

\* C26: for every operation the plain-JSON encoding contains every field
\* present in the operation under its wire key, and no key for an absent
\* optional field; the params of the JSON-RPC envelope of an operation are
\* this same object.
C26_FieldsUnderWireKeys ==
    /\ codecFn = "JsonCodec::encode_request" =>
            /\ codecOut.text = "json"
            /\ DOMAIN codecOut.value = PresentFields(codecArg)
            /\ \A k \in DOMAIN codecOut.value : codecOut.value[k] = FieldValue(codecArg, k)
    /\ codecFn = "JsonRpcCodec::encode_request" =>
            /\ codecOut.text = "json"
            /\ codecOut.value.params = json_object(codecArg)

\* The part of C26 that holds: the encoding has no key but those of present
\* fields, each with the field's value; SendMessage, CancelTask and
\* RegisterWebhook are encoded in full; the JSON-RPC params are the same
\* object.
C26_NoOtherKeys ==
    /\ codecFn = "JsonCodec::encode_request" =>
            /\ DOMAIN codecOut.value \subseteq PresentFields(codecArg)
            /\ \A k \in DOMAIN codecOut.value : codecOut.value[k] = FieldValue(codecArg, k)
            /\ codecArg.op \in {"SendMessage", "CancelTask", "RegisterWebhook"}
                    => DOMAIN codecOut.value = PresentFields(codecArg)
    /\ codecFn = "JsonRpcCodec::encode_request" =>
            codecOut.value.params = json_object(codecArg)

\* ------------------------------------------------------------ C27
\* Helper: JsonCodec::decode_response was applied to a non-empty body.
OnNonEmptyBody ==
    /\ codecFn = "JsonCodec::decode_response"
    /\ ~is_empty(codecArg.body)

\* C27: JsonCodec::decode_response on a non-empty body decodes by
\* originating operation: SendMessage with stream = false, GetTask and
\* CancelTask give a Task; ListTasks gives a TaskList; DiscoverAgent gives an
\* AgentCard (each read from the body, a body of another shape being an
\* error); the streaming operations (SendMessage with stream = true,
\* SubscribeTask) and RegisterWebhook give Empty, whatever the body.
C27_DecodesByOperation ==
    OnNonEmptyBody =>
        LET o == codecArg.operation
            body == codecArg.body
        IN  IF is_streaming(o) \/ o.op = "RegisterWebhook"
            THEN codecOut = DecodeOk("Empty", "")
            ELSE codecOut.ok =>
                    /\ codecOut.kind =
                            CASE o.op \in {"SendMessage", "GetTask", "CancelTask"} -> "Task"
                              [] o.op = "ListTasks" -> "TaskList"
                              [] o.op = "DiscoverAgent" -> "AgentCard"
                    /\ body.text = "json"
                    /\ codecOut.val = body.value.id

\* The part of C27 that holds: every row but the streaming SendMessage,
\* which is decoded as a Task like the non-streaming one.
C27_StreamingSendDecodesTask ==
    OnNonEmptyBody =>
        LET o == codecArg.operation
            body == codecArg.body
        IN  IF o.op \in {"SubscribeTask", "RegisterWebhook"}
            THEN codecOut = DecodeOk("Empty", "")
            ELSE /\ codecOut.ok <=>
                        (body.text = "json" /\ body.value.shape =
                            CASE o.op \in {"SendMessage", "GetTask", "CancelTask"} -> "task"
                              [] o.op = "ListTasks" -> "tasklist"
                              [] o.op = "DiscoverAgent" -> "card")
                 /\ codecOut.ok =>
                        /\ codecOut.kind =
                            CASE o.op \in {"SendMessage", "GetTask", "CancelTask"} -> "Task"
                              [] o.op = "ListTasks" -> "TaskList"
                              [] o.op = "DiscoverAgent" -> "AgentCard"
                        /\ codecOut.val = body.value.id
                 /\ ~codecOut.ok => codecOut.kind = "Serialization"

\* ------------------------------------------------------------ C28
\* C28: for every StreamEvent, is_terminal() is true exactly when final is
\* true or payload.state is one of completed, failed, cancelled, rejected,
\* and is_error() is true exactly when payload.state is one of failed,
\* cancelled, rejected, the state strings being the wire values of
\* TaskStatus.
C28_TerminalAndErrorStates ==
    /\ codecFn = "SseEvent::is_terminal" =>
            (codecOut <=>
                (\/ codecArg.final_event
                 \/ /\ codecArg.payload.state.member = "value"
                    /\ codecArg.payload.state.val \in TaskStatus
                    /\ is_terminal(codecArg.payload.state.val)))
    /\ codecFn = "SseEvent::is_error" =>
            (codecOut <=>
                (/\ codecArg.payload.state.member = "value"
                 /\ codecArg.payload.state.val \in {"failed", "cancelled", "rejected"}))

\* The part of C28 that holds: the two predicates with the state string
\* "canceled" in the place of the wire value "cancelled".
C28_CanceledOneL ==
    /\ codecFn = "SseEvent::is_terminal" =>
            (codecOut <=>
                (\/ codecArg.final_event
                 \/ /\ codecArg.payload.state.member = "value"
                    /\ codecArg.payload.state.val
                            \in {"completed", "failed", "canceled", "rejected"}))
    /\ codecFn = "SseEvent::is_error" =>
            (codecOut <=>
                (/\ codecArg.payload.state.member = "value"
                 /\ codecArg.payload.state.val \in {"failed", "canceled", "rejected"}))

\* ------------------------------------------------------------ C30
\* Helper: the keys among text, file, data that a decoded part object holds.
PartKeys(obj) ==
    (IF obj.text # "absent" THEN {"text"} ELSE {})
        \cup (IF obj.file # "absent" THEN {"file"} ELSE {})
        \cup (IF obj.data # "absent" THEN {"data"} ELSE {})

\* C30: decoding a message part object in which more than one of the keys
\* text, file, data is present fails (it is not silently decoded as the
\* first matching variant); an object with exactly one of those keys, holding
\* a value of the variant's type, decodes to the corresponding variant Text,
\* File or Data.
C30_OneKeyOnly ==
    codecFn = "MessagePart::deserialize" =>
        /\ Cardinality(PartKeys(codecArg)) > 1 => ~codecOut.ok
        /\ (codecArg.text = "valid" /\ PartKeys(codecArg) = {"text"})
                => codecOut = DecodeOk("Text", "")
        /\ (codecArg.file = "valid" /\ PartKeys(codecArg) = {"file"})
                => codecOut = DecodeOk("File", "")
        /\ (codecArg.data = "valid" /\ PartKeys(codecArg) = {"data"})
                => codecOut = DecodeOk("Data", "")

\* The part of C30 that holds: the objects with exactly one of the keys.
C30_SingleKeyDecodes ==
    (codecFn = "MessagePart::deserialize" /\ Cardinality(PartKeys(codecArg)) = 1) =>
        /\ codecArg.text = "valid" => codecOut = DecodeOk("Text", "")
        /\ codecArg.file = "valid" => codecOut = DecodeOk("File", "")
        /\ codecArg.data = "valid" => codecOut = DecodeOk("Data", "")
        /\ (codecArg.text = "invalid" \/ codecArg.file = "invalid") => ~codecOut.ok

\* ------------------------------------------------------------ C29
\* Helper: the i-th event of the byte stream is a JSON-RPC envelope with an
\* error member.
EnvelopeError(i) == sseInput[i].data = "json" /\ sseInput[i].error.member # "absent"

\* C29: in the stream returned by SseCodec::parse_stream, once an event
\* whose JSON-RPC envelope has an error member has been surfaced as a
\* Protocol error the stream is terminated: no further item (event or error)
\* is yielded for the events that follow it in the byte stream.
C29_StreamEndsAtEnvelopeError ==
    \A i \in 1..Len(sseItems) :
        EnvelopeError(i) =>
            /\ ~sseItems[i].ok
            /\ sseItems[i].kind = "Protocol"
            /\ Len(sseItems) = i

\* The part of C29 that holds: an envelope with an error member is surfaced
\* as a Protocol error, and the stream yields one item for each event of the
\* byte stream, in order, whatever came before it.
C29_OneItemPerEvent ==
    /\ Len(sseItems) = ssePos
    /\ ssePos <= Len(sseInput)
    /\ \A i \in 1..Len(sseItems) :
        /\ sseItems[i] = parse_event(sseInput[i])
        /\ EnvelopeError(i) => ~sseItems[i].ok /\ sseItems[i].kind = "Protocol"

\* A call made through A2AProtocolService has returned, and neither the
\* handshake nor the send failed.
ServiceCallReturned ==
    /\ callReq # NoCallRequest
    /\ callRet # NoCallRet
    /\ ret[1].tag \notin {TransportConnect, TransportSend}

\* C31: every operation issued through A2AProtocolService with the JSON-RPC
\* codec over WebSocketTransport, the GET-mapped ones included, sends exactly
\* one text frame, and the frame is the JSON-RPC envelope the codec encoded
\* for the operation.
C31_OneFrameWithEnvelope ==
    ServiceCallReturned =>
        /\ Len(wire) = 1
        /\ \E id \in UuidValues :
                sent_frames[1] = jsonrpc_encode_request(callReq.operation, id)

\* What holds: the operations build_transport_request maps to POST send the one
\* frame with their envelope; a GET-mapped operation sends nothing and returns
\* the Serialization error.
C31_PostSendsGetFails ==
    ServiceCallReturned =>
        IF method(callReq.operation) = "GET"
        THEN Len(wire) = 0 /\ callRet = DecodeErr("Serialization", "")
        ELSE /\ Len(wire) = 1
             /\ \E id \in UuidValues :
                    sent_frames[1] = jsonrpc_encode_request(callReq.operation, id)

\* A call made through A2AProtocolService gave up waiting for its response.
ServiceCallTimedOut ==
    /\ callReq # NoCallRequest
    /\ callRet = DecodeErr("Timeout", "")

\* C32: a call waits for its response for the timeout of its request context
\* when one is set and for 30 seconds otherwise; calls with different context
\* timeouts give up after their own durations.
C32_DeadlineFromContext ==
    ServiceCallTimedOut =>
        elapsed = IF callReq.context.timeout.some THEN callReq.context.timeout.val
                  ELSE 30

\* What holds: every call that times out has waited the fixed deadline of
\* execute, whatever its context says.
C32_FixedDeadline ==
    ServiceCallTimedOut => elapsed = ResponseDeadline

\* An execute call has put its envelope on the socket.
ExecuteSent == kind[1] = "execute" /\ Len(wire) > 0

\* C33: in every execute call the id the responder is registered under is the
\* id carried by the envelope actually sent (the generated id is put into the
\* envelope when it had none), so a reply echoing the envelope's id matches
\* the registration.
C33_RegisteredIdIsSentId ==
    ExecuteSent =>
        /\ sent_frames[1].value.id = Str(registered_id)
        /\ reply_frame = ResultFrame(reqId[1], TRUE)

\* What holds: an envelope with a string id is registered under that id, and
\* every envelope is sent as it was supplied.
C33_StringIdRegistered ==
    ExecuteSent =>
        /\ sent_frames[1] = callBody
        /\ callBody.value.id.member = "value" =>
                /\ sent_frames[1].value.id = Str(registered_id)
                /\ reply_frame = ResultFrame(reqId[1], TRUE)

\* Call 1 was made with a body that is empty or not JSON.
BadBodyCall == callBody # NoCallBody /\ ~(callBody.text = "json") /\ pc[1] # "idle"

\* C39: an execute or execute_streaming call whose body is empty or not valid
\* JSON fails with the Serialization error before anything else happens: no
\* handshake is attempted, no responder is registered and no frame is sent;
\* the connection slot and the pending-requests map are unchanged.
C39_BadBodyFailsFirst ==
    BadBodyCall =>
        /\ pc[1] = "done"
        /\ ret[1] = Err("Serialization")
        /\ attempts = 0
        /\ connection = 0
        /\ connGuard = 0
        /\ pending_requests = EmptyMap
        /\ wire = <<>>

\* Both entry points reject an empty body and a body that is not JSON.
C39_Witness ==
    /\ BadBodyCall
    /\ kind[1] = "streaming"
    /\ callBody = GarbageBytes
    /\ ret[1] = Err("Serialization")

\* A call that returned through the protocol service with the agent's result.
ServiceCallAnswered ==
    /\ callReq # NoCallRequest
    /\ callRet # NoCallRet
    /\ ret[1].tag = "Ok"

\* C40: a successful call composes end to end: when the agent answers with
\* the frame {jsonrpc, result, id}, the body execute returns with status 200
\* is accepted by JsonRpcCodec::decode_response for the originating operation
\* and yields the response encoded in result.
C40_ResultDecoded ==
    ServiceCallAnswered =>
        callRet = json_decode_response(to_vec(agentResult), callReq.operation)

\* What holds: the body execute returns is the bare result value, which
\* decode_response refuses as an envelope.
C40_BareResultRefused ==
    ServiceCallAnswered =>
        callRet = DecodeErr("Protocol", "Failed to parse JSON-RPC response")

\* The frames the claim lists as having no effect.
SkippedKinds == {"binary", "ping", "pong", "notjson", "noid", "error"}

\* C34: the receiver task handles frames strictly in arrival order and stops
\* for good at the first Close frame or read error, handling no frame after
\* it; binary, ping and pong frames, text that is not JSON and text lacking a
\* string id or a result member leave the pending-requests map unchanged and
\* do not stop the task.
C34_ReceiverInOrderUntilClose ==
    [][ /\ receiver = "exited" => receiver' = "exited" /\ recvPos' = recvPos
        /\ recvPos' # recvPos =>
            /\ recvPos' = recvPos + 1
            /\ receiver = "running"
            /\ frames' = frames
            /\ frames[recvPos'].kind \in {"close", "readerr"} => receiver' = "exited"
            /\ frames[recvPos'].kind \in SkippedKinds =>
                    /\ pending_requests' = pending_requests
                    /\ chan' = chan
                    /\ receiver' = "running"
      ]_vars

\* The receiver skipped a ping while a call was pending, stopped at a Close
\* frame, and left the frame behind it unread.
C34_Witness ==
    /\ receiver = "exited"
    /\ recvPos = 2
    /\ Len(frames) = 3
    /\ frames[1].kind = "ping"
    /\ frames[2].kind = "close"
    /\ frames[3].kind = "result"
    /\ pending_requests[frames[3].id] # 0

\* Call c registered and sent its request, has an id of its own, and no
\* result frame with that id has arrived.
Unanswered(c) ==
    /\ pc[c] = "done"
    /\ ret[c].tag \notin {TransportConnect, TransportSend}
    /\ \A d \in Started \ {c} : reqId[d] # reqId[c]
    /\ \A n \in 1..Len(frames) : ~(frames[n].kind = "result" /\ frames[n].id = reqId[c])

\* C35: a frame for a pending call that carries an error member and no result
\* is not delivered to the caller: the pending entry stays registered and,
\* with no result frame for that id, the call ends with Timeout, not with a
\* Protocol error.
C35_ErrorFrameNotDelivered ==
    /\ [][recvPos' # recvPos /\ frames[recvPos'].kind = "error" =>
            /\ pending_requests' = pending_requests
            /\ chan' = chan
            /\ ret' = ret]_vars
    /\ [](\A c \in Calls : Unanswered(c) => ret[c] = Err(Timeout))

\* The receiver has read an error frame for call 1 while the call was waiting,
\* and the call then timed out.
C35_Witness ==
    /\ Unanswered(1)
    /\ ret[1] = Err(Timeout)
    /\ recvPos >= 1
    /\ frames[1] = ErrorFrame(reqId[1])
    /\ pending_requests[reqId[1]] = 1
    /\ wire = <<1>>

\* An execute call that registered, has received nothing, and whose id is no
\* longer held for it in the map: another call registered under the id.
Replaced(c) ==
    /\ kind[c] = "execute"
    /\ pc[c] \in {"send", "sending", "wait"}
    /\ chan[c] = <<>>
    /\ pending_requests[reqId[c]] # c

\* C36: the pending map holds one responder per id.  A call registering under
\* an id that is still pending replaces the first responder; the first
\* caller's wait ends with the Transport error "Response channel closed" (if
\* its send does not fail first and it is not dropped), and a later result
\* frame with the id goes to the second caller only.  execute_streaming calls
\* whose envelope has no string id all register under the empty id.
C36_SecondRegistrationReplaces ==
    /\ \A b \in DirectBodies :
            parses(b) /\ b.value.id.member # "value" => streaming_request_id(b) = ""
    /\ [][\A c \in Calls :
            /\ pc[c] = "register" /\ pc'[c] # "register" =>
                    pending_requests' = [pending_requests EXCEPT ![reqId[c]] = c]
            /\ Replaced(c) =>
                    /\ chan'[c] = <<>>
                    /\ \/ Replaced(c)'
                       \/ /\ pc'[c] = "done"
                          /\ ret'[c].tag \in {TransportClosed, TransportSend, "Dropped"}
            /\ pc[c] = "wait" /\ Replaced(c) /\ pc'[c] = "done" =>
                    ret'[c].tag \in {TransportClosed, "Dropped"}
            /\ chan'[c] # chan[c] /\ chan'[c] # <<>> =>
                    /\ recvPos' = recvPos + 1
                    /\ pending_requests[frames[recvPos'].id] = c
         ]_vars

\* Call 2 registered under call 1's pending id: call 1 ended with "Response
\* channel closed" and the result frame was delivered to call 2.
C36_Witness ==
    /\ reqId[1] = reqId[2]
    /\ kind[1] = "execute"
    /\ ret[1] = Err(TransportClosed)
    /\ \E n \in 1..Len(fate) : fate[n] = Fate("delivered", 2)
    /\ \A n \in 1..Len(fate) : fate[n] # Fate("delivered", 1)

\* The receiver task has read frame n, a result frame for a registered id,
\* and has not handled it yet.
ResultRead(n) ==
    /\ receiver = "running"
    /\ recvPos = n - 1
    /\ Len(frames) >= n
    /\ frames[n].kind = "result"
    /\ pending_requests[frames[n].id] # 0

ClassesHolding ==
    Cardinality({k \in {"is_terminal", "is_processing", "requires_input"} : codecOut[k]})

\* C38: every TaskStatus value is in exactly one of the classes terminal
\* (completed, failed, cancelled, rejected), processing (submitted, working)
\* and awaiting-client (input-required, auth-required); Task::is_terminal,
\* is_processing and requires_input are pairwise exclusive and jointly
\* exhaustive, and Task::is_terminal agrees with TaskStatus::is_terminal.
C38_ThreeClasses ==
    codecFn = "Task::predicates" =>
        /\ ClassesHolding = 1
        /\ codecOut.is_terminal <=>
                codecArg \in {"completed", "failed", "cancelled", "rejected"}
        /\ codecOut.is_processing <=> codecArg \in {"submitted", "working"}
        /\ codecOut.requires_input <=> codecArg \in {"input-required", "auth-required"}
        /\ codecOut.is_terminal <=> codecOut.status_is_terminal

\* The predicates were applied to a task awaiting input.
C38_Witness ==
    /\ codecFn = "Task::predicates"
    /\ codecArg = "input-required"
    /\ codecOut.requires_input
    /\ ~codecOut.is_processing

====
